---- MODULE Spec2Model ----
(***************************************************************************)
(* A model of check_events.py, the Eugloh course watcher: extraction of    *)
(* events from the registration anchors of a page, deduplication against   *)
(* seen.json, the per-event history ledger, the statistics report, the     *)
(* feed, and the normal and rebuild run modes.                             *)
(*                                                                         *)
(* Conventions.                                                            *)
(*  - A Python value that may be None is a sequence: <<>> is None and      *)
(*    <<v>> is the value v.                                                *)
(*  - A text (str) is a sequence of tokens, each a TLA+ string; "" is the  *)
(*    empty sequence.  Substring tests, replace() and concatenation act on *)
(*    tokens.  A URL is a text whose tokens are the origin, "/", path      *)
(*    segments, "?", "#" and what follows them.                            *)
(*  - Times are whole seconds since the epoch, the process runs in UTC.    *)
(*  - A number with one decimal (round(x, 1)) is kept in tenths.           *)
(***************************************************************************)
EXTENDS Integers, Sequences, FiniteSets, TLC

None == <<>>
Some(v) == <<v>>
Val(o) == o[1]

\* Python truthiness of "text or None": neither None nor "".
Truthy(o) == o # None /\ Val(o) # <<>>

Range(s) == {s[i] : i \in 1..Len(s)}

\* ---------------------------------------------------------------- bounds

\* The clock takes the values T0 + k * TickLen, k in 0..MaxTicks.
MaxTicks == 1
\* A page holds at most MaxAnchors anchors matched by REG_LINK_SELECTOR.
MaxAnchors == 2

T0 == 24 * 60 * 60
TickLen == 6 * 60 * 60
Clock == {T0 + k * TickLen : k \in 0..MaxTicks}

\* Where the feed is followed over days, the clock takes the values
\* T0 + k * FeedTickLen, k in 0..MaxFeedTicks.
MaxFeedTicks == 2
FeedTickLen == 4 * 24 * 60 * 60

\* ---------------------------------------------------------- configuration

DAY == 24 * 60 * 60
EXPIRED_DAYS_BUFFER == 0
ORIGIN == "https://www.eugloh.eu"
\* TARGET_URL, split as urlparse splits it.
TARGET_PATH == <<"/", "courses-trainings", "/">>
TARGET_QUERY == <<"?", "openRegistrations=%5Byes%5D">>

\* ------------------------------------------------------------------- urls

IsOrigin(tok) == tok \in {"https://www.eugloh.eu", "https://intranet.eugloh.eu"}

\* The index of the first token of s that is in toks, Len(s) + 1 if none.
FirstOf(s, toks) ==
  IF \E i \in 1..Len(s) : s[i] \in toks
  THEN CHOOSE i \in 1..Len(s) : s[i] \in toks /\ \A j \in 1..(i - 1) : s[j] \notin toks
  ELSE Len(s) + 1

\* The index of the last token of s that is in toks, 0 if none.
LastOf(s, toks) ==
  IF \E i \in 1..Len(s) : s[i] \in toks
  THEN CHOOSE i \in 1..Len(s) : s[i] \in toks /\ \A j \in (i + 1)..Len(s) : s[j] \notin toks
  ELSE 0

\* urljoin(TARGET_URL, u): an absolute u stands, a rooted path replaces the
\* path, a bare query or fragment keeps the target's path, anything else is
\* resolved against the directory of the target's path.
urljoin(u) ==
  IF u = <<>> THEN <<ORIGIN>> \o TARGET_PATH \o TARGET_QUERY
  ELSE IF IsOrigin(u[1]) THEN u
  ELSE IF u[1] = "/" THEN <<ORIGIN>> \o u
  ELSE IF u[1] = "?" THEN <<ORIGIN>> \o TARGET_PATH \o u
  ELSE IF u[1] = "#" THEN <<ORIGIN>> \o TARGET_PATH \o TARGET_QUERY \o u
  ELSE <<ORIGIN>> \o SubSeq(TARGET_PATH, 1, LastOf(TARGET_PATH, {"/"})) \o u

\* normalize_url with only the query dropped: a fragment that follows the
\* path directly is kept.
normalize_url_keepfragment(u) ==
  LET abs_url == urljoin(u)
  IN SubSeq(abs_url, 1, FirstOf(abs_url, {"?"}) - 1)

\* urlparse, _replace(query="", fragment=""), urlunparse: the fragment starts
\* at the first "#", the query at the first "?" before it.
normalize_url(u) ==
  LET abs_url == urljoin(u)
      nofrag == SubSeq(abs_url, 1, FirstOf(abs_url, {"#"}) - 1)
  IN SubSeq(nofrag, 1, FirstOf(nofrag, {"?"}) - 1)

\* ------------------------------------------------------------------ dates

\* datetime.strptime over the six formats: the whole text is one date.
ExactDates == {"01 Jan 1970 12:00", "02 Jan 1970 03:00", "01 Feb 1970 00:00",
               "02/01/1970", "1970-01-02"}
ExactTs(tok) ==
  CASE tok = "01 Jan 1970 12:00" -> 43200
    [] tok = "02 Jan 1970 03:00" -> 97200
    [] tok = "01 Feb 1970 00:00" -> 2678400
    [] tok = "02/01/1970" -> 86400
    [] tok = "1970-01-02" -> 86400

\* The first regex: day, month name, year, optional time (23:59 if absent).
MonthNameDates == {"01 Jan 1970 12:00", "02 Jan 1970 03:00", "01 Feb 1970 00:00",
                   "01 Jan 1970"}
MonthNameTs(tok) ==
  CASE tok = "01 Jan 1970 12:00" -> 43200
    [] tok = "02 Jan 1970 03:00" -> 97200
    [] tok = "01 Feb 1970 00:00" -> 2678400
    [] tok = "01 Jan 1970" -> 86340

\* The second regex: year-month-day, optional time (23:59 if absent).
IsoDates == {"1970-01-02"}
IsoTs(tok) == 172740

Blank == {"\n\n", " "}

\* text.strip()
Strip(s) ==
  IF \A i \in 1..Len(s) : s[i] \in Blank THEN <<>>
  ELSE LET a == CHOOSE i \in 1..Len(s) : s[i] \notin Blank /\ \A j \in 1..(i - 1) : s[j] \in Blank
           b == CHOOSE i \in 1..Len(s) : s[i] \notin Blank /\ \A j \in (i + 1)..Len(s) : s[j] \in Blank
       IN SubSeq(s, a, b)

\* parse_deadline: None, or Some(timestamp).
parse_deadline(date_str) ==
  IF ~Truthy(date_str) THEN None
  ELSE LET txt == Val(date_str)
           date_text == IF "Deadline:" \in Range(txt)
                        THEN Strip(SubSeq(txt, LastOf(txt, {"Deadline:"}) + 1, Len(txt)))
                        ELSE txt
           whole == Strip(date_text)
       IN IF Len(whole) = 1 /\ whole[1] \in ExactDates THEN Some(ExactTs(whole[1]))
          ELSE IF FirstOf(date_text, MonthNameDates) <= Len(date_text)
               THEN Some(MonthNameTs(date_text[FirstOf(date_text, MonthNameDates)]))
          ELSE IF FirstOf(date_text, IsoDates) <= Len(date_text)
               THEN Some(IsoTs(date_text[FirstOf(date_text, IsoDates)]))
          ELSE None

\* is_event_expired with the deadline's own second already counted as past.
is_event_expired_inclusive(date_str, buffer_days, t) ==
  LET deadline_timestamp == parse_deadline(date_str)
  IN IF deadline_timestamp = None THEN FALSE
     ELSE t >= Val(deadline_timestamp) + buffer_days * 24 * 60 * 60

\* is_event_expired at wall-clock time t.
is_event_expired(date_str, buffer_days, t) ==
  LET deadline_timestamp == parse_deadline(date_str)
  IN IF deadline_timestamp = None THEN FALSE
     ELSE t > Val(deadline_timestamp) + buffer_days * 24 * 60 * 60

\* ------------------------------------------------------------- extraction

\* What the DOM queries of extract_event_from_anchor yield for one anchor:
\*   href          a_tag.get("href")
\*   sel_title     the text of _find_in_ancestors(a_tag, TITLE_SELECTOR)
\*   child_heading the first non-empty heading that is a direct child of an ancestor
\*   prev_heading  the text of a_tag.find_previous(headings)
\*   sel_date      the text of _find_in_ancestors(a_tag, DATE_SELECTOR)
\*   prev_time     the text of a_tag.find_previous("time")
\*   prev_date     the text of a_tag.find_previous(class_="date")
\*   child_p       the first non-empty <p> that is a direct child of the parent
\*   prev_p        the text of a_tag.find_previous("p")
\* each None when the query finds no element.
FirstTruthy(opts) ==
  IF \E i \in 1..Len(opts) : Truthy(opts[i])
  THEN opts[CHOOSE i \in 1..Len(opts) : Truthy(opts[i]) /\ \A j \in 1..(i - 1) : ~Truthy(opts[j])]
  ELSE None

BOILERPLATE == "Find out more and register now"

\* description.replace(BOILERPLATE, "")
RECURSIVE Without(_, _)
Without(s, tok) ==
  IF s = <<>> THEN <<>>
  ELSE IF Head(s) = tok THEN Without(Tail(s), tok)
  ELSE <<Head(s)>> \o Without(Tail(s), tok)

\* Lines 300-313: the clean-up of a non-empty description.
CleanDescription(description, date) ==
  LET d1 == Strip(Without(description, BOILERPLATE))
      d2 == IF Truthy(date) /\ Strip(Val(date)) # <<>> /\ "Deadline:" \notin Range(d1)
            THEN IF d1 = <<>> THEN <<"Deadline:">> \o Val(date)
                 ELSE d1 \o <<"\n\n", "Deadline:">> \o Val(date)
            ELSE d1
  IN IF Truthy(date) /\ Strip(Val(date)) # <<>> /\ Strip(d2) = <<>>
     THEN <<"Deadline:">> \o Val(date)
     ELSE d2

\* extract_event_from_anchor giving up on an anchor no title is found for.
extract_event_from_anchor_titled(a) ==
  IF ~Truthy(a.href) THEN None
  ELSE LET link == normalize_url(Val(a.href))
           eid == link
           title0 == FirstTruthy(<<a.sel_title, a.child_heading, a.prev_heading>>)
           date == FirstTruthy(<<a.sel_date, a.prev_time, a.prev_date>>)
           desc0 == IF a.child_p # None THEN a.child_p
                    ELSE IF Truthy(a.prev_p) THEN a.prev_p ELSE None
           desc1 == IF Truthy(desc0) THEN CleanDescription(Val(desc0), date) ELSE <<>>
           description == IF desc1 # <<>> THEN desc1
                          ELSE IF Truthy(date) THEN <<"Event:">> \o Val(title0)
                          ELSE Val(title0)
       IN IF ~Truthy(title0) THEN None
          ELSE Some([id |-> eid, title |-> Val(title0), date |-> date, link |-> link,
                     description |-> description])

\* extract_event_from_anchor: None, or Some(event).
extract_event_from_anchor(a) ==
  IF ~Truthy(a.href) THEN None
  ELSE LET link == normalize_url(Val(a.href))
           eid == link
           title0 == FirstTruthy(<<a.sel_title, a.child_heading, a.prev_heading>>)
           date == FirstTruthy(<<a.sel_date, a.prev_time, a.prev_date>>)
           desc0 == IF a.child_p # None THEN a.child_p
                    ELSE IF Truthy(a.prev_p) THEN a.prev_p ELSE None
           desc1 == IF Truthy(desc0) THEN CleanDescription(Val(desc0), date) ELSE <<>>
           title == IF Truthy(title0) THEN Val(title0) ELSE link
           description == IF desc1 # <<>> THEN desc1
                          ELSE IF Truthy(date) THEN <<"Event:">> \o title ELSE title
       IN Some([id |-> eid, title |-> title, date |-> date, link |-> link,
                description |-> description])

\* find_events: the events of the anchors the selector matches, in document order.
RECURSIVE find_events(_)
find_events(html) ==
  IF html = <<>> THEN <<>>
  ELSE LET ev == extract_event_from_anchor(Head(html))
       IN (IF ev # None THEN <<Val(ev)>> ELSE <<>>) \o find_events(Tail(html))

\* ---------------------------------------------------------------- history

\* round(seconds / 86400, 1), in tenths of a day, round-half-even as Python
\* rounds a tie that is an exact binary fraction (x.25, x.75); the clock's
\* granularity makes every tie such a fraction.
RoundDays1(seconds) ==
  LET q == (seconds * 10) \div DAY
      r == (seconds * 10) % DAY
  IN IF 2 * r < DAY THEN q
     ELSE IF 2 * r > DAY THEN q + 1
     ELSE IF q % 2 = 0 THEN q ELSE q + 1

\* update_event_history with the expiry recorded on every call with status
\* "expired", whether or not expired_at is already set (the guard of line 509
\* dropped).
update_event_history_reexpire(history, event, status, t) ==
  LET event_id == event.id
      h1 == IF event_id \notin DOMAIN history
            THEN [i \in DOMAIN history \cup {event_id} |->
                    IF i = event_id
                    THEN [id |-> event_id, title |-> event.title, link |-> event.link,
                          deadline |-> event.date, first_seen |-> t,
                          last_seen |-> t, expired_at |-> None,
                          registration_duration_days |-> None]
                    ELSE history[i]]
            ELSE [history EXCEPT ![event_id].last_seen = t]
  IN IF status = "expired"
     THEN [h1 EXCEPT ![event_id].expired_at = Some(t),
                     ![event_id].registration_duration_days =
                        Some(RoundDays1(t - h1[event_id].first_seen))]
     ELSE h1

\* update_event_history with the record of a known id refreshed from the
\* event (title and deadline overwritten along with last_seen).
update_event_history_overwrite(history, event, status, t) ==
  LET event_id == event.id
      h1 == IF event_id \notin DOMAIN history
            THEN [i \in DOMAIN history \cup {event_id} |->
                    IF i = event_id
                    THEN [id |-> event_id, title |-> event.title, link |-> event.link,
                          deadline |-> event.date, first_seen |-> t,
                          last_seen |-> t, expired_at |-> None,
                          registration_duration_days |-> None]
                    ELSE history[i]]
            ELSE [history EXCEPT ![event_id].last_seen = t,
                                 ![event_id].title = event.title,
                                 ![event_id].deadline = event.date]
  IN IF status = "expired" /\ h1[event_id].expired_at = None
     THEN [h1 EXCEPT ![event_id].expired_at = Some(t),
                     ![event_id].registration_duration_days =
                        Some(RoundDays1(t - h1[event_id].first_seen))]
     ELSE h1

\* update_event_history leaving the record of a known id as it is (last_seen
\* not refreshed).
update_event_history_keeplast(history, event, status, t) ==
  LET event_id == event.id
      h1 == IF event_id \notin DOMAIN history
            THEN [i \in DOMAIN history \cup {event_id} |->
                    IF i = event_id
                    THEN [id |-> event_id, title |-> event.title, link |-> event.link,
                          deadline |-> event.date, first_seen |-> t,
                          last_seen |-> t, expired_at |-> None,
                          registration_duration_days |-> None]
                    ELSE history[i]]
            ELSE history
  IN IF status = "expired" /\ h1[event_id].expired_at = None
     THEN [h1 EXCEPT ![event_id].expired_at = Some(t),
                     ![event_id].registration_duration_days =
                        Some(RoundDays1(t - h1[event_id].first_seen))]
     ELSE h1

\* update_event_history, with current_time = int(time.time()) = t.
update_event_history(history, event, status, t) ==
  LET event_id == event.id
      current_time == t
      h1 == IF event_id \notin DOMAIN history
            THEN [i \in DOMAIN history \cup {event_id} |->
                    IF i = event_id
                    THEN [id |-> event_id, title |-> event.title, link |-> event.link,
                          deadline |-> event.date, first_seen |-> current_time,
                          last_seen |-> current_time, expired_at |-> None,
                          registration_duration_days |-> None]
                    ELSE history[i]]
            ELSE [history EXCEPT ![event_id].last_seen = current_time]
  IN IF status = "expired" /\ h1[event_id].expired_at = None
     THEN [h1 EXCEPT ![event_id].expired_at = Some(current_time),
                     ![event_id].registration_duration_days =
                        Some(RoundDays1(current_time - h1[event_id].first_seen))]
     ELSE h1

\* ------------------------------------------------------------- statistics

\* The lists of the report are cut to their first TopN entries (lines 678-680).
TopN == 10

\* round(num / den, 0) for num >= 0, den > 0, a tie going to the even side.
RoundRatio(num, den) ==
  LET q == num \div den
      r == num % den
  IN IF 2 * r < den THEN q
     ELSE IF 2 * r > den THEN q + 1
     ELSE IF q % 2 = 0 THEN q ELSE q + 1

\* sorted(S, key=...): the elements of S ascending by key, a function on S.
\* Python's sort keeps elements of equal key in the order of the history
\* file; a history here has no order, equal keys come in some fixed order.
RECURSIVE SortedBy(_, _)
SortedBy(S, key) ==
  IF S = {} THEN <<>>
  ELSE LET m == CHOOSE x \in S : \A y \in S : key[x] <= key[y]
       IN <<m>> \o SortedBy(S \ {m}, key)

\* sorted(S, key=..., reverse=True)
SortedByDesc(S, key) == SortedBy(S, [x \in S |-> 0 - key[x]])

\* The slice left out: the whole list.
Take_all(s, n) == s

\* s[:n]
Take(s, n) == SubSeq(s, 1, IF Len(s) < n THEN Len(s) ELSE n)

\* Lines 587-603: the records with a deadline text that is_event_expired
\* does not find expired.
ActiveIds(history, t) ==
  {i \in DOMAIN history :
     /\ Truthy(history[i].deadline)
     /\ ~is_event_expired(history[i].deadline, EXPIRED_DAYS_BUFFER, t)}

\* Lines 587-589: the records with a deadline text found expired.
ExpiredIds(history, t) ==
  {i \in DOMAIN history :
     /\ Truthy(history[i].deadline)
     /\ is_event_expired(history[i].deadline, EXPIRED_DAYS_BUFFER, t)}

\* Lines 631-644 (durations in tenths of a day): None for the {} of a report
\* without durations; the average is not modelled.
registration_duration_stats(history) ==
  LET ids == {i \in DOMAIN history :
                /\ history[i].registration_duration_days # None
                /\ Val(history[i].registration_duration_days) # 0}
      d == [i \in ids |-> Val(history[i].registration_duration_days)]
      sorted == SortedBy(ids, d)
  IN IF ids = {} THEN None
     ELSE Some([min |-> d[sorted[1]],
                max |-> d[sorted[Len(sorted)]],
                median |-> d[sorted[(Len(sorted) \div 2) + 1]],
                total_completed |-> Len(sorted)])

\* Lines 604-607 and 646-653 (ages in tenths of a day): None for the {} of a
\* report without active ages; the average is not modelled.
active_event_ages(history, t) ==
  LET ids == {i \in ActiveIds(history, t) : history[i].first_seen # 0}
      age == [i \in ids |-> t - history[i].first_seen]
      sorted == SortedBy(ids, age)
  IN IF ids = {} THEN None
     ELSE Some([min |-> RoundDays1(age[sorted[1]]),
                max |-> RoundDays1(age[sorted[Len(sorted)]]),
                median |-> RoundDays1(age[sorted[(Len(sorted) \div 2) + 1]])])

\* Lines 655-675 (rates in hundredths, tracking_days in tenths): None for
\* the {} the report starts with; insufficient_data FALSE where the key is
\* not set.  Every time of the model is a whole minute, and the rates are
\* computed over minutes to stay within 32 bits.
event_velocity(history, t) ==
  LET all_first_seen == {history[i].first_seen : i \in {j \in DOMAIN history : history[j].first_seen > 0}}
      oldest_event == CHOOSE f \in all_first_seen : \A g \in all_first_seen : f <= g
      total_seconds == t - oldest_event
      n == Cardinality(DOMAIN history)
  IN IF DOMAIN history = {} \/ all_first_seen = {} THEN None
     ELSE IF total_seconds >= 7 * DAY
     THEN Some([events_per_week |-> Some(RoundRatio(n * 100 * 7 * 24 * 60, total_seconds \div 60)),
                events_per_month |-> Some(RoundRatio(n * 100 * 30 * 24 * 60, total_seconds \div 60)),
                tracking_days |-> RoundDays1(total_seconds),
                insufficient_data |-> FALSE])
     ELSE Some([events_per_week |-> None,
                events_per_month |-> None,
                tracking_days |-> RoundDays1(total_seconds),
                insufficient_data |-> TRUE])

\* Lines 617-629 and 678: the active records whose deadline parses to a time
\* (not 0) within the next 30 days, by days_remaining (tenths), the first TopN.
upcoming_deadlines(history, t) ==
  LET ids == {i \in ActiveIds(history, t) :
                /\ parse_deadline(history[i].deadline) # None
                /\ Val(parse_deadline(history[i].deadline)) # 0
                /\ Val(parse_deadline(history[i].deadline)) - t > 0
                /\ Val(parse_deadline(history[i].deadline)) - t <= 30 * DAY}
      days_remaining == [i \in ids |-> RoundDays1(Val(parse_deadline(history[i].deadline)) - t)]
      sorted == SortedBy(ids, days_remaining)
  IN Take([k \in 1..Len(sorted) |->
             [title |-> history[sorted[k]].title,
              deadline |-> history[sorted[k]].deadline,
              days_remaining |-> days_remaining[sorted[k]],
              link |-> history[sorted[k]].link]], TopN)

\* Lines 590-601 and 679: the records found expired whose expired_at is set
\* and within the last 7 days, latest first, the first TopN.
recently_expired(history, t) ==
  LET ids == {i \in ExpiredIds(history, t) :
                /\ history[i].expired_at # None
                /\ Val(history[i].expired_at) # 0
                /\ Val(history[i].expired_at) >= t - 7 * DAY}
      expired_at == [i \in ids |-> Val(history[i].expired_at)]
      sorted == SortedByDesc(ids, expired_at)
  IN Take([k \in 1..Len(sorted) |->
             [title |-> history[sorted[k]].title,
              deadline |-> history[sorted[k]].deadline,
              expired_at |-> expired_at[sorted[k]],
              link |-> history[sorted[k]].link,
              registration_duration_days |-> history[sorted[k]].registration_duration_days]],
          TopN)

\* Lines 604-615 and 680: the active records first seen more than 60 days
\* ago, by days_active (tenths) descending, the first TopN.
long_running_events(history, t) ==
  LET ids == {i \in ActiveIds(history, t) :
                history[i].first_seen # 0 /\ t - history[i].first_seen > 60 * DAY}
      days_active == [i \in ids |-> RoundDays1(t - history[i].first_seen)]
      sorted == SortedByDesc(ids, days_active)
  IN Take([k \in 1..Len(sorted) |->
             [title |-> history[sorted[k]].title,
              deadline |-> history[sorted[k]].deadline,
              days_active |-> days_active[sorted[k]],
              link |-> history[sorted[k]].link]], TopN)

\* generate_statistics with a record counted active when its expired_at is
\* unset, instead of when its deadline has not passed.
generate_statistics_byflag(history, state, t) ==
  LET one_week_ago == t - 7 * 24 * 60 * 60
      one_month_ago == t - 30 * 24 * 60 * 60
      ids == DOMAIN history
      dated == {i \in ids : Truthy(history[i].deadline)}
      expired == {i \in dated : is_event_expired(history[i].deadline, EXPIRED_DAYS_BUFFER, t)}
      wasExpired(i) == history[i].expired_at # None /\ Val(history[i].expired_at) # 0
  IN [generated_at |-> t,
      total_events_tracked |-> Cardinality(ids),
      currently_active |-> Cardinality({i \in dated : history[i].expired_at = None}),
      total_expired |-> Cardinality(expired),
      registration_duration_stats |-> registration_duration_stats(history),
      active_event_ages |-> active_event_ages(history, t),
      event_velocity |-> event_velocity(history, t),
      upcoming_deadlines |-> upcoming_deadlines(history, t),
      recently_expired |-> recently_expired(history, t),
      long_running_events |-> long_running_events(history, t),
      new_this_week |-> Cardinality({i \in ids : history[i].first_seen >= one_week_ago}),
      new_this_month |-> Cardinality({i \in ids : history[i].first_seen >= one_month_ago}),
      expired_this_week |->
        Cardinality({i \in ids : wasExpired(i) /\ Val(history[i].expired_at) >= one_week_ago}),
      expired_this_month |->
        Cardinality({i \in ids : wasExpired(i) /\ Val(history[i].expired_at) >= one_month_ago})]

\* generate_statistics at wall-clock time t: the counts of the report.
generate_statistics(history, state, t) ==
  LET current_time == t
      one_week_ago == current_time - 7 * 24 * 60 * 60
      one_month_ago == current_time - 30 * 24 * 60 * 60
      ids == DOMAIN history
      dated == {i \in ids : Truthy(history[i].deadline)}
      expired == {i \in dated : is_event_expired(history[i].deadline, EXPIRED_DAYS_BUFFER, current_time)}
      wasExpired(i) == history[i].expired_at # None /\ Val(history[i].expired_at) # 0
  IN [generated_at |-> current_time,
      total_events_tracked |-> Cardinality(ids),
      currently_active |-> Cardinality(dated \ expired),
      total_expired |-> Cardinality(expired),
      registration_duration_stats |-> registration_duration_stats(history),
      active_event_ages |-> active_event_ages(history, t),
      event_velocity |-> event_velocity(history, t),
      upcoming_deadlines |-> upcoming_deadlines(history, t),
      recently_expired |-> recently_expired(history, t),
      long_running_events |-> long_running_events(history, t),
      new_this_week |-> Cardinality({i \in ids : history[i].first_seen >= one_week_ago}),
      new_this_month |-> Cardinality({i \in ids : history[i].first_seen >= one_month_ago}),
      expired_this_week |->
        Cardinality({i \in ids : wasExpired(i) /\ Val(history[i].expired_at) >= one_week_ago}),
      expired_this_month |->
        Cardinality({i \in ids : wasExpired(i) /\ Val(history[i].expired_at) >= one_month_ago})]

\* ------------------------------------------------------------------- feed

\* time.strftime("%a, %d %b %Y %H:%M:%S +0000", time.gmtime()) at time t.
RfcDate(t) == <<"RFC2822", ToString(t)>>

\* The event date texts email.utils.parsedate_to_datetime accepts.
RfcDates == {"01 Jan 1970 12:00", "02 Jan 1970 03:00", "01 Feb 1970 00:00"}

\* The times the program formats as RFC 2822 dates.
RfcTimes == {T0 + k * TickLen : k \in 0..(MaxTicks + 1)}
            \cup {T0 + k * FeedTickLen : k \in 0..MaxFeedTicks}

\* parsedate_to_datetime(text).timestamp(): None when it raises.
RfcParse(text) ==
  IF Len(text) = 2 /\ text[1] = "RFC2822"
  THEN IF \E t \in RfcTimes : ToString(t) = text[2]
       THEN Some(CHOOSE t \in RfcTimes : ToString(t) = text[2])
       ELSE None
  ELSE IF Len(text) = 1 /\ text[1] \in RfcDates THEN Some(ExactTs(text[1]))
  ELSE None

\* Lines 1172-1188: the item of a new event.
FeedItem(ev, t) ==
  [title |-> IF ev.title # <<>> THEN ev.title ELSE ev.id,
   link |-> ev.link,
   description |-> ev.description,
   pubDate |-> IF Truthy(ev.date) THEN Val(ev.date) ELSE RfcDate(t),
   guid |-> ev.id,
   categories |-> <<"EUGLOH Event", "new">>]

\* Lines 1202-1236: an existing item loses "new" once older than 7 days and
\* gains "expired" once; an item whose pubDate does not parse is left alone.
RefreshItem(item, t) ==
  LET seven_days_ago == t - 7 * 24 * 60 * 60
      ts == RfcParse(item.pubDate)
      c1 == IF Val(ts) < seven_days_ago
            THEN SelectSeq(item.categories, LAMBDA c : c # "new")
            ELSE item.categories
      c2 == IF item.description # <<>>
               /\ is_event_expired(Some(item.description), EXPIRED_DAYS_BUFFER, t)
               /\ "expired" \notin Range(c1)
            THEN Append(c1, "expired")
            ELSE c1
  IN IF item.pubDate = <<>> \/ ts = None THEN item
     ELSE [item EXCEPT !.categories = c2]

Reverse(s) == [i \in 1..Len(s) |-> s[Len(s) + 1 - i]]

\* append_to_feed with the new items put after the existing ones.
append_to_feed_appended(feed, new_events, t) ==
  LET items_xml == [i \in 1..Len(new_events) |-> FeedItem(new_events[i], t)]
  IN IF feed # None
     THEN [lastBuildDate |-> t,
           items |-> [i \in 1..Len(Val(feed).items) |-> RefreshItem(Val(feed).items[i], t)]
                     \o items_xml]
     ELSE [lastBuildDate |-> t, items |-> items_xml]

\* append_to_feed: the feed file (None when absent) after the call at time t.
append_to_feed(feed, new_events, t) ==
  LET items_xml == [i \in 1..Len(new_events) |-> FeedItem(new_events[i], t)]
  IN IF feed # None
     THEN [lastBuildDate |-> t,
           items |-> items_xml \o
                     [i \in 1..Len(Val(feed).items) |-> RefreshItem(Val(feed).items[i], t)]]
     ELSE [lastBuildDate |-> t, items |-> items_xml]

\* update_feed_timestamp
update_feed_timestamp(feed, t) ==
  IF feed = None THEN None ELSE Some([Val(feed) EXCEPT !.lastBuildDate = t])

\* ------------------------------------------------------------ persistence

EmptyState == [seen_ids |-> {}, last_checked |-> None]
EmptyHistory == [i \in {} |-> None]

\* A file (None when absent) holds a JSON document, Some(value), or a text
\* json.load raises on, such as Garbled.
Garbled == <<"{", "\"seen_ids\": [">>
IsJson(file) == Len(file) = 1

\* load_state / load_history: the default when the file is absent
\* (FileNotFoundError) and when reading or parsing it raises.
load_state(file) ==
  IF file = None THEN EmptyState
  ELSE IF ~IsJson(file) THEN EmptyState
  ELSE Val(file)
load_history(file) ==
  IF file = None THEN EmptyHistory
  ELSE IF ~IsJson(file) THEN EmptyHistory
  ELSE Val(file)

\* ----------------------------------------------------------------- inputs

NoAnchor == [href |-> None, sel_title |-> None, child_heading |-> None,
             prev_heading |-> None, sel_date |-> None, prev_time |-> None,
             prev_date |-> None, child_p |-> None, prev_p |-> None]

\* The anchors a fetched page is made of.
AnchorA1 == [NoAnchor EXCEPT !.href = Some(<<"/", "a">>),
                             !.sel_title = Some(<<"Course A">>),
                             !.sel_date = Some(<<"02 Jan 1970 03:00">>),
                             !.child_p = Some(<<"Join us", BOILERPLATE>>)]
AnchorA2 == [NoAnchor EXCEPT !.href = Some(<<"/", "a", "?", "utm=x">>),
                             !.prev_heading = Some(<<"Course A (2)">>),
                             !.prev_time = Some(<<"01 Jan 1970 12:00">>)]
AnchorB == [NoAnchor EXCEPT !.href = Some(<<"/", "b", "#", "info">>),
                            !.prev_p = Some(<<"About B">>)]
Anchors == {AnchorA1, AnchorA2, AnchorB}

RECURSIVE SeqsUpTo(_, _)
SeqsUpTo(S, n) ==
  IF n = 0 THEN {<<>>}
  ELSE LET shorter == SeqsUpTo(S, n - 1)
       IN shorter \cup {Append(s, x) : s \in shorter, x \in S}

Pages == SeqsUpTo(Anchors, MaxAnchors)

\* find_events, tabulated over the pages.
PageEvents == [page \in Pages |-> find_events(page)]

Sinks == {"webhook", "email", "teams"}
Ids == {normalize_url(Val(a.href)) : a \in {b \in Anchors : Truthy(b.href)}}

\* ------------------------------------------------------------------ state

VARIABLES
  now,          \* the wall clock, time.time()
  stateFile,    \* STATE_FILE: None when absent, else Some(state)
  historyFile,  \* HISTORY_FILE: None when absent, else Some(history)
  statsFile,    \* STATS_FILE: None when absent, else Some(stats)
  feedFile,     \* FEED_FILE: None when absent, else Some(feed)
  pc,           \* where the running process stands; "idle" when none runs
  state,        \* main's locals
  seen,
  history,
  events,
  new_events,
  idx,          \* the position of the loop over new_events
  log,          \* the last line the process printed
  notified,     \* how often each sink was invoked for each id, over all runs
  calls,        \* the sink invocations of the current run, in order
  failed,       \* the ids a sink of the current run failed for
  runStart,     \* the clock when the current run started
  lastRun,      \* the events of the page of the last completed run that fetched it,
                \* None once the clock has moved since that run started
  tracking,     \* whether lastRun is kept at all
  html,         \* main's local: the anchors of the fetched page
  tmpFiles,     \* the ".tmp" paths of STATE_FILE and HISTORY_FILE, None when absent
  args,         \* the arguments of a function called on its own
  ret           \* what that call returned

files == <<stateFile, historyFile, statsFile, feedFile>>
locals == <<state, seen, history, html, events, new_events, idx>>
ghosts == <<notified, calls, failed, runStart, lastRun, tracking>>
call == <<args, ret>>
vars == <<now, files, tmpFiles, pc, locals, log, ghosts, call>>

\* No save is under way: neither ".tmp" path exists.
NoTmp == [state |-> None, history |-> None]

\* The locals of a process that is not running.
LocalsCleared ==
  /\ state' = EmptyState
  /\ seen' = {}
  /\ history' = EmptyHistory
  /\ events' = <<>>
  /\ new_events' = <<>>
  /\ idx' = 0
  /\ html' = <<>>

Start(track) ==
  /\ now = T0
  /\ stateFile = None
  /\ historyFile = None
  /\ statsFile = None
  /\ feedFile = None
  /\ pc = "idle"
  /\ state = EmptyState
  /\ seen = {}
  /\ history = EmptyHistory
  /\ events = <<>>
  /\ new_events = <<>>
  /\ idx = 0
  /\ html = <<>>
  /\ log = ""
  /\ notified = [s \in Sinks |-> [i \in Ids |-> 0]]
  /\ calls = <<>>
  /\ failed = {}
  /\ runStart = T0
  /\ lastRun = None
  /\ tracking = track
  /\ tmpFiles = NoTmp
  /\ args = None
  /\ ret = None

\* No state file, no history, no feed, no process.
Init == Start(FALSE)

\* ------------------------------------------------------------- operations

\* Time passes.
Tick ==
  /\ now < T0 + MaxTicks * TickLen
  /\ now' = now + TickLen
  /\ lastRun' = None
  /\ UNCHANGED <<tmpFiles, call, files, pc, locals, log, notified, calls, failed, runStart, tracking>>

\* Lines 1462-1465: the history updated for every event of the page.
RECURSIVE UpdateAll(_, _, _)
UpdateAll(h, evs, t) ==
  IF evs = <<>> THEN h
  ELSE LET ev == Head(evs)
           event_status == IF is_event_expired(ev.date, EXPIRED_DAYS_BUFFER, t)
                           THEN "expired" ELSE "active"
       IN UpdateAll(update_event_history(h, ev, event_status, t), Tail(evs), t)

\* The deduplication left out: every event of the page is new.
NewEvents_all(evs, seenIds) == evs

\* The deduplication with the page order lost (newest first).
NewEvents_unordered(evs, seenIds) == Reverse(SelectSeq(evs, LAMBDA e : e.id \notin seenIds))

\* Line 1468: the events whose id is not in seen, in page order.
NewEvents(evs, seenIds) == SelectSeq(evs, LAMBDA e : e.id \notin seenIds)

\* The run has ended: the process is gone.
RunEnds(evs, started) ==
  /\ pc' = "idle"
  /\ LocalsCleared
  /\ lastRun' = IF tracking /\ started = now THEN Some(evs) ELSE None

\* A failed fetch that still writes last_checked to the state file.
MainFetchFailed_touch ==
  /\ log' = "Error fetching page"
  /\ pc' = "idle"
  /\ LocalsCleared
  /\ stateFile' = Some([load_state(stateFile) EXCEPT !.last_checked = Some(now)])
  /\ UNCHANGED <<historyFile, statsFile, feedFile, lastRun>>

\* main, lines 1452-1456: fetch_page raised; the run returns.
MainFetchFailed ==
  /\ log' = "Error fetching page"
  /\ pc' = "idle"
  /\ LocalsCleared
  /\ UNCHANGED <<files, lastRun>>

\* main with load_state and load_history letting the exception of an
\* unparsable file through: the run dies before anything is written.
MainBegin_strict(page, fetch_ok) ==
  LET state0 == load_state(stateFile)
      seen0 == state0.seen_ids
      evs == PageEvents[page]
      history1 == UpdateAll(load_history(historyFile), evs, now)
      new == NewEvents(evs, seen0)
      raised == (stateFile # None /\ ~IsJson(stateFile))
                \/ (historyFile # None /\ ~IsJson(historyFile))
  IN /\ pc = "idle"
     /\ runStart' = now
     /\ calls' = <<>>
     /\ IF raised
        THEN /\ log' = "Traceback"
             /\ pc' = "idle"
             /\ LocalsCleared
             /\ UNCHANGED <<files, lastRun>>
        ELSE IF ~fetch_ok
        THEN MainFetchFailed
        ELSE /\ historyFile' = Some(history1)
             /\ statsFile' = Some(generate_statistics(history1, state0, now))
             /\ IF new = <<>>
                THEN /\ log' = "No new events"
                     /\ stateFile' = Some([state0 EXCEPT !.last_checked = Some(now)])
                     /\ feedFile' = IF feedFile = None THEN None
                                    ELSE Some(append_to_feed(update_feed_timestamp(feedFile, now),
                                                             <<>>, now))
                     /\ RunEnds(evs, now)
                ELSE /\ log' = "Found candidate events"
                     /\ state' = state0
                     /\ seen' = seen0
                     /\ history' = history1
                     /\ html' = page
                     /\ events' = evs
                     /\ new_events' = new
                     /\ idx' = 1
                     /\ pc' = "webhook"
                     /\ UNCHANGED <<stateFile, feedFile, lastRun>>
     /\ UNCHANGED <<tmpFiles, call, now, notified, failed, tracking>>

\* main, lines 1446-1488: load the state and the history, fetch the page
\* (fetch_ok says whether fetch_page returns), extract the events, update the
\* history for each, deduplicate, save the history and the statistics; with
\* no new event the run ends here, as it does when the fetch fails.
MainBegin(page, fetch_ok) ==
  LET state0 == load_state(stateFile)
      seen0 == state0.seen_ids
      evs == PageEvents[page]
      history1 == UpdateAll(load_history(historyFile), evs, now)
      new == NewEvents(evs, seen0)
  IN /\ pc = "idle"
     /\ runStart' = now
     /\ calls' = <<>>
     /\ IF ~fetch_ok
        THEN MainFetchFailed
        ELSE /\ historyFile' = Some(history1)
             /\ statsFile' = Some(generate_statistics(history1, state0, now))
             /\ IF new = <<>>
                THEN /\ log' = "No new events"
                     /\ stateFile' = Some([state0 EXCEPT !.last_checked = Some(now)])
                     /\ feedFile' = IF feedFile = None THEN None
                                    ELSE Some(append_to_feed(update_feed_timestamp(feedFile, now),
                                                             <<>>, now))
                     /\ RunEnds(evs, now)
                ELSE /\ log' = "Found candidate events"
                     /\ state' = state0
                     /\ seen' = seen0
                     /\ history' = history1
                     /\ html' = page
                     /\ events' = evs
                     /\ new_events' = new
                     /\ idx' = 1
                     /\ pc' = "webhook"
                     /\ UNCHANGED <<stateFile, feedFile, lastRun>>
     /\ UNCHANGED <<tmpFiles, call, now, notified, failed, tracking>>

\* A sink whose failure is not contained: the remaining sinks of the event
\* are skipped.
Invoke_skip(sink, sink_ok, next) ==
  LET ev == new_events[idx]
  IN /\ notified' = [notified EXCEPT ![sink][ev.id] = @ + 1]
     /\ calls' = Append(calls, <<sink, ev.id>>)
     /\ failed' = IF sink_ok THEN failed ELSE failed \cup {ev.id}
     /\ pc' = IF sink_ok THEN next ELSE "mark"
     /\ UNCHANGED <<tmpFiles, call, now, files, locals, log, runStart, lastRun, tracking>>

\* A sink is invoked for the current new event; the sink catches its own
\* failure (sink_ok is FALSE) and returns.
Invoke(sink, sink_ok, next) ==
  LET ev == new_events[idx]
  IN /\ notified' = [notified EXCEPT ![sink][ev.id] = @ + 1]
     /\ calls' = Append(calls, <<sink, ev.id>>)
     /\ failed' = IF sink_ok THEN failed ELSE failed \cup {ev.id}
     /\ pc' = next
     /\ UNCHANGED <<tmpFiles, call, now, files, locals, log, runStart, lastRun, tracking>>

\* main, line 1493: post_to_webhook(ev)
MainWebhook(sink_ok) ==
  /\ pc = "webhook"
  /\ Invoke("webhook", sink_ok, "email")

\* The second sink call made to the Teams webhook: Teams before email.
MainEmail_teamsFirst(sink_ok) ==
  /\ pc = "email"
  /\ Invoke("teams", sink_ok, "teams")

\* main, line 1494: send_email_notification(ev)
MainEmail(sink_ok) ==
  /\ pc = "email"
  /\ Invoke("email", sink_ok, "teams")

\* main, line 1495: send_teams_notification(ev)
MainTeams(sink_ok) ==
  /\ pc = "teams"
  /\ Invoke("teams", sink_ok, "mark")

\* The event marked seen only if none of its sinks failed.
MainMarkSeen_unlessFailed ==
  /\ pc = "mark"
  /\ seen' = IF new_events[idx].id \in failed THEN seen ELSE seen \cup {new_events[idx].id}
  /\ history' = update_event_history(history, new_events[idx], "new", now)
  /\ idx' = idx + 1
  /\ pc' = IF idx < Len(new_events) THEN "webhook" ELSE "feed"
  /\ UNCHANGED <<tmpFiles, call, now, files, state, html, events, new_events, log, ghosts>>

\* main, lines 1496-1499: the event is seen and enters the history as new.
MainMarkSeen ==
  /\ pc = "mark"
  /\ seen' = seen \cup {new_events[idx].id}
  /\ history' = update_event_history(history, new_events[idx], "new", now)
  /\ idx' = idx + 1
  /\ pc' = IF idx < Len(new_events) THEN "webhook" ELSE "feed"
  /\ UNCHANGED <<tmpFiles, call, now, files, state, html, events, new_events, log, ghosts>>

\* main, line 1502: the new events are prepended to the feed, newest first.
MainAppendFeed ==
  /\ pc = "feed"
  /\ feedFile' = Some(append_to_feed(feedFile, Reverse(new_events), now))
  /\ log' = "Wrote feed"
  /\ pc' = "savestate"
  /\ UNCHANGED <<tmpFiles, call, now, stateFile, historyFile, statsFile, locals, ghosts>>

\* The state saved with the ids of this run's new events only.
MainSaveState_newOnly ==
  /\ pc = "savestate"
  /\ state' = [seen_ids |-> {new_events[k].id : k \in 1..Len(new_events)},
               last_checked |-> Some(now)]
  /\ stateFile' = Some(state')
  /\ pc' = "savehistory"
  /\ UNCHANGED <<tmpFiles, call, now, historyFile, statsFile, feedFile, seen, history, html, events,
                 new_events, idx, log, ghosts>>

\* main, lines 1504-1506: the state is saved.
MainSaveState ==
  /\ pc = "savestate"
  /\ state' = [seen_ids |-> seen, last_checked |-> Some(now)]
  /\ stateFile' = Some(state')
  /\ pc' = "savehistory"
  /\ UNCHANGED <<tmpFiles, call, now, historyFile, statsFile, feedFile, seen, history, html, events,
                 new_events, idx, log, ghosts>>

\* main, lines 1509-1515: the history and the statistics are saved.
MainSaveHistory ==
  /\ pc = "savehistory"
  /\ historyFile' = Some(history)
  /\ statsFile' = Some(generate_statistics(history, state, now))
  /\ log' = "Saved state"
  /\ calls' = <<>>
  /\ failed' = {}
  /\ RunEnds(events, runStart)
  /\ UNCHANGED <<tmpFiles, call, now, stateFile, feedFile, notified, runStart, tracking>>

\* ---------------------------------------------------------------- rebuild

\* Line 1397: the text after the first "Deadline:" up to the end of its line.
DeadlineOf(desc_text) ==
  LET i == FirstOf(desc_text, {"Deadline:"})
      rest == SubSeq(desc_text, i + 1, Len(desc_text))
  IN IF i > Len(desc_text) THEN <<>>
     ELSE Strip(SubSeq(rest, 1, FirstOf(rest, {"\n\n"}) - 1))

\* Lines 1380-1429: the history record of one feed item.
RebuiltRecord(item, t) ==
  LET deadline == DeadlineOf(item.description)
      pub == IF item.pubDate # <<>> THEN RfcParse(item.pubDate) ELSE None
      first_seen_timestamp == IF pub # None THEN Val(pub) ELSE t
      is_expired == IF deadline # <<>>
                    THEN is_event_expired(Some(deadline), EXPIRED_DAYS_BUFFER, t)
                    ELSE FALSE
  IN [id |-> item.guid, title |-> item.title, link |-> item.link,
      deadline |-> Some(deadline),
      first_seen |-> first_seen_timestamp, last_seen |-> first_seen_timestamp,
      expired_at |-> IF is_expired THEN Some(first_seen_timestamp) ELSE None,
      registration_duration_days |-> None]

\* Lines 1374-1429: a later item of the same guid overwrites an earlier one.
RECURSIVE RebuiltHistory(_, _, _)
RebuiltHistory(h, items, t) ==
  IF items = <<>> THEN h
  ELSE LET item == Head(items)
           h1 == IF item.guid = <<>> THEN h
                 ELSE [i \in DOMAIN h \cup {item.guid} |->
                         IF i = item.guid THEN RebuiltRecord(item, t) ELSE h[i]]
       IN RebuiltHistory(h1, Tail(items), t)

\* The rebuild laid over the history file instead of an empty history.
Rebuild_merge ==
  /\ pc = "idle"
  /\ IF feedFile = None
     THEN /\ log' = "Feed file not found"
          /\ UNCHANGED <<historyFile, statsFile>>
     ELSE LET rebuilt == RebuiltHistory(load_history(historyFile), Val(feedFile).items, now)
          IN /\ historyFile' = Some(rebuilt)
             /\ statsFile' = Some(generate_statistics(rebuilt, load_state(stateFile), now))
             /\ log' = "Updated statistics"
  /\ lastRun' = None
  /\ UNCHANGED <<tmpFiles, call, now, stateFile, feedFile, pc, locals, notified, calls, failed, runStart, tracking>>

\* rebuild_history_from_feed (the --rebuild-history run).
Rebuild ==
  /\ pc = "idle"
  /\ IF feedFile = None
     THEN /\ log' = "Feed file not found"
          /\ UNCHANGED <<historyFile, statsFile>>
     ELSE LET rebuilt == RebuiltHistory(EmptyHistory, Val(feedFile).items, now)
          IN /\ historyFile' = Some(rebuilt)
             /\ statsFile' = Some(generate_statistics(rebuilt, load_state(stateFile), now))
             /\ log' = "Updated statistics"
  /\ lastRun' = None
  /\ UNCHANGED <<tmpFiles, call, now, stateFile, feedFile, pc, locals, notified, calls, failed, runStart, tracking>>

\* ---------------------------------------------------------- specification

\* Normal runs.
Next ==
  \/ Tick
  \/ \E page \in Pages, fetch_ok \in BOOLEAN : MainBegin(page, fetch_ok)
  \/ \E sink_ok \in BOOLEAN : MainWebhook(sink_ok)
  \/ \E sink_ok \in BOOLEAN : MainEmail(sink_ok)
  \/ \E sink_ok \in BOOLEAN : MainTeams(sink_ok)
  \/ MainMarkSeen
  \/ MainAppendFeed
  \/ MainSaveState
  \/ MainSaveHistory

Spec == Init /\ [][Next]_vars

\* Normal runs, the events of the last run's page remembered.
InitTwice == Start(TRUE)

SpecTwice == InitTwice /\ [][Next]_vars

\* Normal runs and rebuild-mode runs.
NextRebuild ==
  \/ Next
  \/ Rebuild

SpecRebuild == Init /\ [][NextRebuild]_vars

\* ------------------------------------------- update_event_history, called

Statuses == {"new", "active", "expired"}

\* The events update_event_history is called with.
ApiEvents == {Val(extract_event_from_anchor(a)) : a \in {b \in Anchors : Truthy(b.href)}}

InitHistory ==
  /\ now = T0
  /\ stateFile = None
  /\ historyFile = None
  /\ statsFile = None
  /\ feedFile = None
  /\ pc = "api"
  /\ state = EmptyState
  /\ seen = {}
  /\ history = EmptyHistory
  /\ events = <<>>
  /\ new_events = <<>>
  /\ idx = 0
  /\ html = <<>>
  /\ log = ""
  /\ notified = [s \in Sinks |-> [i \in Ids |-> 0]]
  /\ calls = <<>>
  /\ failed = {}
  /\ runStart = T0
  /\ lastRun = None
  /\ tracking = FALSE
  /\ tmpFiles = NoTmp
  /\ args = None
  /\ ret = None

\* update_event_history(history, event, status) on a history held in memory;
\* events, log and runStart keep the call's event, status and time.
ApiUpdate(event, status) ==
  /\ pc = "api"
  /\ history' = update_event_history(history, event, status, now)
  /\ events' = <<event>>
  /\ log' = status
  /\ runStart' = now
  /\ UNCHANGED <<tmpFiles, call, now, files, pc, state, seen, html, new_events, idx, notified, calls, failed,
                 lastRun, tracking>>

NextHistory ==
  \/ Tick
  \/ \E event \in ApiEvents, status \in Statuses : ApiUpdate(event, status)

SpecHistory == InitHistory /\ [][NextHistory]_vars

\* ------------------------------------------------- deduplication, applied

\* A candidate list holds at most MaxCandidates events.
MaxCandidates == 3

AnchorE(name) == [NoAnchor EXCEPT !.href = Some(<<"/", name>>),
                                  !.sel_title = Some(<<name>>)]
DedupAnchors == {AnchorE("event1"), AnchorE("event2"), AnchorE("event3")}
DedupIds == {normalize_url(Val(a.href)) : a \in DedupAnchors}

\* A seen set and the candidate events of a page.
InitDedup ==
  /\ now = T0
  /\ stateFile = None
  /\ historyFile = None
  /\ statsFile = None
  /\ feedFile = None
  /\ pc = "dedup"
  /\ state = EmptyState
  /\ seen \in SUBSET DedupIds
  /\ history = EmptyHistory
  /\ events \in {find_events(page) : page \in SeqsUpTo(DedupAnchors, MaxCandidates)}
  /\ new_events = <<>>
  /\ idx = 0
  /\ html = <<>>
  /\ log = ""
  /\ notified = [s \in Sinks |-> [i \in Ids |-> 0]]
  /\ calls = <<>>
  /\ failed = {}
  /\ runStart = T0
  /\ lastRun = None
  /\ tracking = FALSE
  /\ tmpFiles = NoTmp
  /\ args = None
  /\ ret = None

\* main, line 1468.
Deduplicate ==
  /\ pc = "dedup"
  /\ new_events' = NewEvents(events, seen)
  /\ pc' = "deduped"
  /\ UNCHANGED <<tmpFiles, call, now, files, state, seen, history, html, events, idx, log, ghosts>>

NextDedup == Deduplicate

SpecDedup == InitDedup /\ [][NextDedup]_vars

\* --------------------------------------------------- statistics, computed

\* A history holds at most MaxRecords records.
MaxRecords == 2

StatId(k) == <<ORIGIN, "/", "e", ToString(k)>>

StatDeadlines == {None, Some(<<>>), Some(<<"TBA">>), Some(<<"01 Jan 1970 12:00">>),
                  Some(<<"02 Jan 1970 03:00">>), Some(<<"01 Feb 1970 00:00">>)}

\* The report is generated over at most MaxReported records of one kind.
MaxReported == 12

\* The record update_event_history leaves for an event first seen at T0 with
\* the given deadline text, judged expired at T0 (was_expired) or not yet.
StatRecord(k, deadline, was_expired) ==
  [id |-> StatId(k), title |-> <<"Course">>, link |-> StatId(k), deadline |-> deadline,
   first_seen |-> T0, last_seen |-> T0,
   expired_at |-> IF was_expired THEN Some(T0) ELSE None,
   registration_duration_days |-> IF was_expired THEN Some(0) ELSE None]

StatHistories ==
  UNION {
    {[i \in {StatId(k) : k \in 1..n} |->
        StatRecord(CHOOSE k \in 1..n : StatId(k) = i, d[CHOOSE k \in 1..n : StatId(k) = i],
                   x[CHOOSE k \in 1..n : StatId(k) = i])] :
       d \in [1..n -> StatDeadlines], x \in [1..n -> BOOLEAN]} :
    n \in 0..MaxRecords}

InitStats ==
  /\ now \in Clock
  /\ stateFile = None
  /\ historyFile = None
  /\ statsFile = None
  /\ feedFile = None
  /\ pc = "stats"
  /\ state = EmptyState
  /\ seen = {}
  /\ history \in StatHistories
  /\ events = <<>>
  /\ new_events = <<>>
  /\ idx = 0
  /\ html = <<>>
  /\ log = ""
  /\ notified = [s \in Sinks |-> [i \in Ids |-> 0]]
  /\ calls = <<>>
  /\ failed = {}
  /\ runStart = T0
  /\ lastRun = None
  /\ tracking = FALSE
  /\ tmpFiles = NoTmp
  /\ args = None
  /\ ret = None

\* stats = generate_statistics(history, state); save_statistics(stats, ...)
Statistics ==
  /\ pc = "stats"
  /\ statsFile' = Some(generate_statistics(history, state, now))
  /\ pc' = "reported"
  /\ UNCHANGED <<tmpFiles, call, now, stateFile, historyFile, feedFile, locals, log, ghosts>>

NextStats == Statistics

SpecStats == InitStats /\ [][NextStats]_vars

\* ------------------------------------------------------------- properties

SeenIds(file) == load_state(file).seen_ids
FeedGuids(file) ==
  IF file = None THEN <<>>
  ELSE [k \in 1..Len(Val(file).items) |-> Val(file).items[k].guid]
IdA == normalize_url(<<"/", "a">>)
IdB == normalize_url(<<"/", "b">>)

\* C1: over any sequence of completed normal runs from an empty state, for
\* every page (also one on which several matched anchors normalize to the
\* same id), each notification sink is invoked at most once per event id.
\* The code does not keep this: see DuplicateAnchorsNotifiedTwice.
C1_AtMostOncePerId ==
  pc = "idle" => \A s \in Sinks, i \in Ids : notified[s][i] <= 1

\* The first run on a page holding /a and /a?utm=x has completed: both anchors
\* were new against the seen set loaded at the start, and each sink was
\* invoked twice for the one id.
DuplicateAnchorsNotifiedTwice ==
  /\ pc = "idle"
  /\ SeenIds(stateFile) = {IdA}
  /\ \A s \in Sinks : notified[s][IdA] = 2

\* C2: over any sequence of normal runs (the fetch succeeding or failing,
\* with or without new events) the persisted seen_ids never shrinks: every
\* id in seen_ids before a step of a run is in seen_ids after it.
C2_SeenIdsNeverShrinks ==
  [][SeenIds(stateFile) \subseteq SeenIds(stateFile')]_vars

\* A later run has added an id to a seen_ids that already held one: both ids
\* are persisted, first seen at different times.
C2_SeenIdsGrew ==
  /\ pc = "idle"
  /\ SeenIds(stateFile) = {IdA, IdB}
  /\ LET h == load_history(historyFile)
     IN DOMAIN h = {IdA, IdB} /\ h[IdA].first_seen # h[IdB].first_seen

\* The step that starts (and, finding nothing new, completes) a normal run on
\* the page of the last completed run, no time having passed since.
SecondRun ==
  /\ lastRun # None
  /\ \E page \in Pages : PageEvents[page] = Val(lastRun) /\ MainBegin(page, TRUE)

HistoryButLastSeen(file) ==
  LET h == load_history(file)
  IN [i \in DOMAIN h |-> [h[i] EXCEPT !.last_seen = 0]]

\* C3: a normal run repeated against the same page with no elapsed time
\* finds no new events, invokes no sink, adds no feed item, and leaves
\* seen_ids and every history field other than last_seen unchanged.
C3_SecondRunIdempotent ==
  [][SecondRun =>
       /\ pc' = "idle"
       /\ log' = "No new events"
       /\ notified' = notified
       /\ FeedGuids(feedFile') = FeedGuids(feedFile)
       /\ SeenIds(stateFile') = SeenIds(stateFile)
       /\ HistoryButLastSeen(historyFile') = HistoryButLastSeen(historyFile)]_vars

\* The page with both anchors of /a was run twice at T0: the first run put
\* its two items in the feed, the second found nothing new.
C3_RanTwice ==
  /\ pc = "idle"
  /\ now = T0
  /\ log = "No new events"
  /\ lastRun = Some(PageEvents[<<AnchorA1, AnchorA2>>])
  /\ FeedGuids(feedFile) = <<IdA, IdA>>
  /\ SeenIds(stateFile) = {IdA}

\* The step of a normal run whose page fetch fails.
FetchFails == \E page \in Pages : MainBegin(page, FALSE)

\* C4: when the page fetch fails, the run ends without invoking any sink and
\* without writing the state, history, statistics or feed file (last_checked
\* included).
C4_FetchFailureWritesNothing ==
  [][FetchFails => pc' = "idle" /\ files' = files /\ notified' = notified]_vars

\* A fetch failed after an earlier run had written all four files, at a
\* later time than that run's last_checked.
C4_FetchFailedOverState ==
  /\ pc = "idle"
  /\ log = "Error fetching page"
  /\ stateFile # None /\ historyFile # None /\ statsFile # None /\ feedFile # None
  /\ Val(stateFile).last_checked # Some(now)

\* The sink invocations a run owes its new events: webhook, email, Teams for
\* each, in page order.
RECURSIVE ExpectedCalls(_)
ExpectedCalls(evs) ==
  IF evs = <<>> THEN <<>>
  ELSE <<<<"webhook", Head(evs).id>>, <<"email", Head(evs).id>>, <<"teams", Head(evs).id>>>>
       \o ExpectedCalls(Tail(evs))

\* C5: when a sink fails for a new event the run still invokes the remaining
\* sinks for that event and processes the remaining new events (the loop
\* over, every new event has had its three sinks invoked, in order), adds the
\* event's id to seen_ids and persists state and history (the run's last
\* step leaves every id a sink failed for in both files), and the next run
\* does not treat the event as new (no run starts with a new event whose id
\* is persisted, and between runs every notified id is persisted).
C5_SinkFailureContained ==
  /\ [](/\ (pc \in {"feed", "savestate", "savehistory"}) =>
             (calls = ExpectedCalls(new_events) /\ failed \subseteq seen)
        /\ (pc = "idle") =>
             (\A i \in Ids :
                (\E s \in Sinks : notified[s][i] > 0) =>
                  (i \in SeenIds(stateFile) /\ i \in DOMAIN load_history(historyFile))))
  /\ [][/\ (pc = "savehistory" /\ pc' = "idle") =>
             (\A i \in failed :
                i \in SeenIds(stateFile') /\ i \in DOMAIN load_history(historyFile'))
        /\ (pc = "idle" /\ pc' = "webhook") =>
             (\A k \in 1..Len(new_events') :
                new_events'[k].id \notin SeenIds(stateFile))]_vars

\* A run with two new events is about to save its history; a sink failed for
\* the first event, and all six invocations were made.
C5_FailedSinkRunCompletes ==
  /\ pc = "savehistory"
  /\ Len(new_events) = 2
  /\ new_events[1].id # new_events[2].id
  /\ failed = {new_events[1].id}
  /\ Len(calls) = 6
  /\ new_events[1].id \in SeenIds(stateFile)

\* The positions of the candidates whose id is not seen.
Kept(evs, seenIds) == {k \in 1..Len(evs) : evs[k].id \notin seenIds}

\* The j-th smallest member of a set of positions.
Nth(S, j) == CHOOSE k \in S : Cardinality({m \in S : m <= k}) = j

\* C6: the new-event list is exactly the list of extracted events whose id
\* is not in the seen set, in page order; for seen set {A, C} and candidates
\* [A, B, C] it is [B].
C6_NewEventsAreUnseenInOrder ==
  pc = "deduped" =>
    /\ Len(new_events) = Cardinality(Kept(events, seen))
    /\ \A j \in 1..Len(new_events) : new_events[j] = events[Nth(Kept(events, seen), j)]
    /\ (/\ seen = {normalize_url(<<"/", "event1">>), normalize_url(<<"/", "event3">>)}
        /\ events = find_events(<<AnchorE("event1"), AnchorE("event2"), AnchorE("event3")>>))
       => new_events = find_events(<<AnchorE("event2")>>)

\* The example: seen {event1, event3}, candidates [event1, event2, event3],
\* deduplicated to [event2].
C6_ExampleDeduplicated ==
  /\ pc = "deduped"
  /\ seen = {normalize_url(<<"/", "event1">>), normalize_url(<<"/", "event3">>)}
  /\ Len(events) = 3
  /\ events[1].id = normalize_url(<<"/", "event1">>)
  /\ events[2].id = normalize_url(<<"/", "event2">>)
  /\ events[3].id = normalize_url(<<"/", "event3">>)
  /\ Len(new_events) = 1
  /\ new_events[1].id = normalize_url(<<"/", "event2">>)

\* C7: once a record's expired_at is non-null, no later update_event_history
\* call, whatever its status, changes expired_at or
\* registration_duration_days.
C7_ExpiryIsFinal ==
  [][\A i \in DOMAIN history :
       history[i].expired_at # None =>
         /\ i \in DOMAIN history'
         /\ history'[i].expired_at = history[i].expired_at
         /\ history'[i].registration_duration_days =
              history[i].registration_duration_days]_vars

\* A record that expired at T0 was updated again, with status expired, one
\* tick later: expired_at and the duration are those of T0.
C7_ExpiredUpdatedAgain ==
  /\ pc = "api"
  /\ log = "expired"
  /\ runStart = T0 + TickLen
  /\ events # <<>>
  /\ events[1].id \in DOMAIN history
  /\ history[events[1].id].last_seen = T0 + TickLen
  /\ history[events[1].id].expired_at = Some(T0)
  /\ history[events[1].id].registration_duration_days = Some(0)

\* C8: in every history reachable through normal runs and rebuild-mode
\* runs, a record's registration_duration_days is non-null exactly when its
\* expired_at is non-null, and then equals (expired_at - first_seen)/86400
\* rounded to one decimal.  The code does not keep this: see
\* RebuiltExpiredWithoutDuration.
C8_DurationIffExpired ==
  \A i \in DOMAIN load_history(historyFile) :
    LET r == load_history(historyFile)[i]
    IN /\ (r.registration_duration_days # None) <=> (r.expired_at # None)
       /\ r.expired_at # None =>
            r.registration_duration_days = Some(RoundDays1(Val(r.expired_at) - r.first_seen))

\* A rebuild-mode run has written a record with expired_at set and no
\* duration.
RebuiltExpiredWithoutDuration ==
  /\ log = "Updated statistics"
  /\ \E i \in DOMAIN load_history(historyFile) :
       /\ load_history(historyFile)[i].expired_at # None
       /\ load_history(historyFile)[i].registration_duration_days = None

\* What a call on a known id may change of the history.
UpdateFrame(event, status) ==
  LET old == history[event.id]
      new == history'[event.id]
      expires == status = "expired" /\ old.expired_at = None
  IN /\ DOMAIN history' = DOMAIN history
     /\ \A i \in DOMAIN history \ {event.id} : history'[i] = history[i]
     /\ new.id = old.id
     /\ new.title = old.title
     /\ new.link = old.link
     /\ new.deadline = old.deadline
     /\ new.first_seen = old.first_seen
     /\ new.last_seen = now
     /\ new.expired_at = IF expires THEN Some(now) ELSE old.expired_at
     /\ new.registration_duration_days =
          IF expires THEN Some(RoundDays1(now - old.first_seen))
          ELSE old.registration_duration_days

\* C9: update_event_history on an id that already has a record changes only
\* last_seen (to the current time) and, on the first transition to expired,
\* expired_at and registration_duration_days; first_seen, title, link and
\* deadline keep their values, and the records of other ids are untouched.
C9_UpdateChangesOnlyLastSeenAndExpiry ==
  [][\A event \in ApiEvents, status \in Statuses :
       (event.id \in DOMAIN history /\ ApiUpdate(event, status)) =>
         UpdateFrame(event, status)]_vars

\* The record of /a, first seen at T0 as "Course A", was updated one tick
\* later from the anchor titled "Course A (2)", while /b has a record too.
C9_KnownIdUpdated ==
  /\ pc = "api"
  /\ DOMAIN history = {IdA, IdB}
  /\ events = <<Val(extract_event_from_anchor(AnchorA2))>>
  /\ history[IdA].title = <<"Course A">>
  /\ history[IdA].first_seen = T0
  /\ history[IdA].last_seen = T0 + TickLen
  /\ runStart = T0 + TickLen

\* Every record has a deadline parse_deadline accepts.
AllDeadlinesParse(h) ==
  \A i \in DOMAIN h : Truthy(h[i].deadline) /\ parse_deadline(h[i].deadline) # None

\* C10: for records that all have a parseable deadline, generate_statistics
\* reports currently_active + total_expired = total_events_tracked.
C10_ActivePlusExpiredIsTotal ==
  (pc = "reported" /\ AllDeadlinesParse(history)) =>
    Val(statsFile).currently_active + Val(statsFile).total_expired
      = Val(statsFile).total_events_tracked

\* Two records with parseable deadlines, one passed and one not, one of them
\* recorded as expired: one active, one expired, two tracked.
C10_OneActiveOneExpired ==
  /\ pc = "reported"
  /\ AllDeadlinesParse(history)
  /\ \E i \in DOMAIN history : history[i].expired_at # None
  /\ Val(statsFile).currently_active = 1
  /\ Val(statsFile).total_expired = 1
  /\ Val(statsFile).total_events_tracked = 2

\* The records whose deadline parse_deadline does not accept.
Unparsed(h) == {i \in DOMAIN h : parse_deadline(h[i].deadline) = None}

\* C11: generate_statistics counts every record whose deadline does not
\* parse (an unparsable text, or an empty or absent deadline) in
\* currently_active and never in total_expired.  The code does not keep
\* this: see UndatedRecordCountedNowhere.
C11_UnparsedCountedActive ==
  pc = "reported" =>
    /\ Val(statsFile).currently_active >= Cardinality(Unparsed(history))
    /\ Val(statsFile).total_expired <= Cardinality(DOMAIN history \ Unparsed(history))

\* The report over one record without a deadline: one event tracked, none
\* active, none expired.
UndatedRecordCountedNowhere ==
  /\ pc = "reported"
  /\ Cardinality(DOMAIN history) = 1
  /\ \A i \in DOMAIN history : history[i].deadline = None
  /\ Val(statsFile).total_events_tracked = 1
  /\ Val(statsFile).currently_active = 0
  /\ Val(statsFile).total_expired = 0

\* ------------------------------------------------ single functions, called

\* A function is about to be called on its own: at pc, at time t, with the
\* arguments a; no file, no run.
ApiStart(at, t, a) ==
  /\ now = t
  /\ stateFile = None
  /\ historyFile = None
  /\ statsFile = None
  /\ feedFile = None
  /\ pc = at
  /\ state = EmptyState
  /\ seen = {}
  /\ history = EmptyHistory
  /\ events = <<>>
  /\ new_events = <<>>
  /\ idx = 0
  /\ html = <<>>
  /\ log = ""
  /\ notified = [s \in Sinks |-> [i \in Ids |-> 0]]
  /\ calls = <<>>
  /\ failed = {}
  /\ runStart = t
  /\ lastRun = None
  /\ tracking = FALSE
  /\ tmpFiles = NoTmp
  /\ args = a
  /\ ret = None

\* The call returns value: only pc and ret change.
Returns(from, value) ==
  /\ pc = from
  /\ ret' = value
  /\ pc' = "returned"
  /\ UNCHANGED <<now, files, tmpFiles, locals, log, ghosts, args>>

\* is_event_expired is called with a buffer of at most MaxBufferDays days.
MaxBufferDays == 1

\* Date texts: absent, empty, unparsable, and parsable in each of the ways
\* parse_deadline knows.
ExpiryTexts == {None, Some(<<>>), Some(<<"TBA">>), Some(<<"Apply by", "02/01/1970">>),
                Some(<<"01 Jan 1970 12:00">>), Some(<<"02/01/1970">>),
                Some(<<"Apply by", "1970-01-02">>), Some(<<"01 Jan 1970">>),
                Some(<<"Join us", "\n\n", "Deadline:", "01 Feb 1970 00:00">>)}

\* The seconds around each deadline plus buffer.
ExpiryTimes ==
  {Val(parse_deadline(d)) + b * DAY + o :
     d \in {x \in ExpiryTexts : parse_deadline(x) # None},
     b \in 0..MaxBufferDays, o \in {-1, 0, 1}}

InitExpiry ==
  \E d \in ExpiryTexts, b \in 0..MaxBufferDays, t \in ExpiryTimes :
    ApiStart("is_event_expired", t, [date_str |-> d, buffer_days |-> b])

\* is_event_expired(date_str, buffer_days)
IsEventExpired ==
  Returns("is_event_expired", is_event_expired(args.date_str, args.buffer_days, now))

NextExpiry == IsEventExpired

SpecExpiry == InitExpiry /\ [][NextExpiry]_vars

\* C12: is_event_expired(text, B) is true exactly when now > T + B*86400, T
\* the parsed deadline: false one second before that instant and at it, true
\* one second after it, and false for every text that does not parse.
C12_ExpiredStrictlyAfterDeadline ==
  (pc = "returned") =>
    LET T == parse_deadline(args.date_str)
        limit == Val(T) + args.buffer_days * 86400
    IN /\ (T = None) => (ret = FALSE)
       /\ (T # None) => (ret = (now > limit))
       /\ (T # None /\ now \in {limit - 1, limit}) => (ret = FALSE)
       /\ (T # None /\ now = limit + 1) => (ret = TRUE)

\* Called at the very second the deadline plus a one-day buffer ends: not
\* expired yet.
C12_AtTheLimit ==
  /\ pc = "returned"
  /\ args.buffer_days = 1
  /\ args.date_str = Some(<<"02/01/1970">>)
  /\ now = 86400 + 86400
  /\ ret = FALSE

\* The hrefs normalize_url is called with: a path (absent, rooted, relative
\* or absolute) followed by a query, a fragment, both or neither.
HrefPaths == {<<>>, <<"/", "event">>, <<"event">>, <<ORIGIN, "/", "event">>,
              <<"https://intranet.eugloh.eu", "/", "register">>}
HrefTails == {<<>>, <<"?", "utm=x">>, <<"#", "info">>, <<"?", "utm=x", "#", "info">>,
              <<"#", "info", "?", "x">>}
Hrefs == {p \o q : p \in HrefPaths, q \in HrefTails}

InitNormalize ==
  \E a \in Hrefs, b \in Hrefs : ApiStart("normalize_url", T0, [a |-> a, b |-> b])

\* normalize_url(a), normalize_url(b), normalize_url(normalize_url(a))
NormalizeUrl ==
  Returns("normalize_url",
          [a |-> normalize_url(args.a), b |-> normalize_url(args.b),
           again |-> normalize_url(normalize_url(args.a))])

NextNormalize == NormalizeUrl

SpecNormalize == InitNormalize /\ [][NextNormalize]_vars

\* An href up to its query string or fragment.
BeforeQueryAndFragment(u) == SubSeq(u, 1, FirstOf(u, {"?", "#"}) - 1)

\* C13: normalize_url maps hrefs that differ only in query string or
\* fragment to the same id (/event?utm=x, /event#info and /event all give
\* .../event), the id holds no query and no fragment, and normalizing an id
\* returns it unchanged.
C13_NormalizeDropsQueryAndFragment ==
  (pc = "returned") =>
    /\ (BeforeQueryAndFragment(args.a) = BeforeQueryAndFragment(args.b)) => (ret.a = ret.b)
    /\ "?" \notin Range(ret.a) /\ "#" \notin Range(ret.a)
    /\ ret.again = ret.a
    /\ (args.a \in {<<"/", "event", "?", "utm=x">>, <<"/", "event", "#", "info">>,
                    <<"/", "event">>}) => (ret.a = <<ORIGIN, "/", "event">>)

\* /event?utm=x and /event#info were normalized, both to .../event.
C13_QueryAndFragmentVariants ==
  /\ pc = "returned"
  /\ args.a = <<"/", "event", "?", "utm=x">>
  /\ args.b = <<"/", "event", "#", "info">>
  /\ ret.a = <<ORIGIN, "/", "event">>
  /\ ret.b = ret.a
  /\ ret.again = ret.a

\* ------------------------------------------------- the feed, over the days

\* append_to_feed is called with at most MaxBatch new events.
MaxBatch == 2

\* Events with no date, a date no parser takes, a date only parse_deadline
\* takes (not yet passed at T0), and a date both parsers take (passed).
FeedAnchors ==
  {[NoAnchor EXCEPT !.href = Some(<<"/", "none">>), !.prev_p = Some(<<"About">>)],
   [NoAnchor EXCEPT !.href = Some(<<"/", "tba">>), !.sel_date = Some(<<"TBA">>),
                    !.prev_p = Some(<<"About">>)],
   [NoAnchor EXCEPT !.href = Some(<<"/", "iso">>), !.sel_date = Some(<<"1970-01-02">>),
                    !.prev_p = Some(<<"About">>)],
   [NoAnchor EXCEPT !.href = Some(<<"/", "rfc">>), !.sel_date = Some(<<"01 Jan 1970 12:00">>),
                    !.prev_p = Some(<<"About">>)]}
FeedEvents == {Val(extract_event_from_anchor(a)) : a \in FeedAnchors}

\* The lists of new events of a run: no id twice.
FeedBatches ==
  {b \in SeqsUpTo(FeedEvents, MaxBatch) :
     \A i \in 1..Len(b), j \in 1..Len(b) : i # j => b[i].id # b[j].id}

InitFeed == ApiStart("feed", T0, None)

\* Days pass.
FeedTick ==
  /\ pc = "feed"
  /\ now < T0 + MaxFeedTicks * FeedTickLen
  /\ now' = now + FeedTickLen
  /\ UNCHANGED <<files, tmpFiles, pc, locals, log, ghosts, call>>

\* Lines 1496-1499 for each new event.
RECURSIVE MarkAllNew(_, _, _)
MarkAllNew(h, evs, t) ==
  IF evs = <<>> THEN h
  ELSE MarkAllNew(update_event_history(h, Head(evs), "new", t), Tail(evs), t)

\* What a run does to the feed: the events not seen before are marked seen,
\* enter the history (lines 1496-1499) and are handed to append_to_feed
\* (line 1502); with no new event an existing feed is refreshed (lines 1485-1487).
AppendToFeed(evs) ==
  /\ pc = "feed"
  /\ \A k \in 1..Len(evs) : evs[k].id \notin seen
  /\ evs # <<>> \/ feedFile # None
  /\ feedFile' = Some(append_to_feed(feedFile, evs, now))
  /\ seen' = seen \cup {evs[k].id : k \in 1..Len(evs)}
  /\ history' = MarkAllNew(history, evs, now)
  /\ events' = evs
  /\ runStart' = now
  /\ UNCHANGED <<now, stateFile, historyFile, statsFile, tmpFiles, pc, state, html,
                 new_events, idx, log, notified, calls, failed, lastRun, tracking, call>>

NextFeed ==
  \/ FeedTick
  \/ \E evs \in FeedBatches : AppendToFeed(evs)

SpecFeed == InitFeed /\ [][NextFeed]_vars

\* The feed has just been updated.
FeedJustUpdated == pc = "feed" /\ feedFile # None /\ Val(feedFile).lastBuildDate = now

\* How many times a category occurs on an item.
Times(item, category) ==
  Cardinality({j \in 1..Len(item.categories) : item.categories[j] = category})

\* C14: after any feed update, an item added to the feed more than 7 days
\* earlier no longer carries the "new" category, whatever the event's date
\* text.  The code does not keep this: see OldUnparsableItemStillNew.
C14_OldItemsLoseNew ==
  FeedJustUpdated =>
    \A k \in 1..Len(Val(feedFile).items) :
      LET item == Val(feedFile).items[k]
      IN (history[item.guid].first_seen < now - 7 * DAY) => (Times(item, "new") = 0)

\* Eight days after it was added, and the feed updated since, the item of
\* the event dated "TBA" is still "new".
OldUnparsableItemStillNew ==
  /\ FeedJustUpdated
  /\ \E k \in 1..Len(Val(feedFile).items) :
       LET item == Val(feedFile).items[k]
       IN /\ item.pubDate = <<"TBA">>
          /\ history[item.guid].first_seen = now - 8 * DAY
          /\ Times(item, "new") = 1

\* C15: an item already in the feed whose deadline, as carried in its
\* description, is judged expired carries exactly one "expired" category
\* after the next feed update and after every further one.  The code does
\* not keep this: see ExpiredItemNeverMarked.
C15_ExpiredItemsMarkedOnce ==
  FeedJustUpdated =>
    \A k \in 1..Len(Val(feedFile).items) :
      LET item == Val(feedFile).items[k]
      IN (/\ history[item.guid].first_seen < now
          /\ is_event_expired(Some(item.description), EXPIRED_DAYS_BUFFER, now))
         => (Times(item, "expired") = 1)

\* The item of the event dated "1970-01-02", added at T0, has been in two
\* later updates of the feed with its deadline passed, and is not "expired".
ExpiredItemNeverMarked ==
  /\ FeedJustUpdated
  /\ now = T0 + 2 * FeedTickLen
  /\ \E k \in 1..Len(Val(feedFile).items) :
       LET item == Val(feedFile).items[k]
       IN /\ item.pubDate = <<"1970-01-02">>
          /\ history[item.guid].first_seen = T0
          /\ is_event_expired(Some(item.description), EXPIRED_DAYS_BUFFER, now)
          /\ Times(item, "expired") = 0

\* C16: append_to_feed(new_events) on a feed that holds items puts every new
\* item before every existing one, the new items in the order given, and
\* removes no existing item.
C16_NewItemsPrepended ==
  [][\A evs \in FeedBatches :
       (feedFile # None /\ AppendToFeed(evs)) =>
         LET old == Val(feedFile).items
             new == Val(feedFile').items
         IN /\ Len(new) = Len(evs) + Len(old)
            /\ \A j \in 1..Len(evs) : new[j].guid = evs[j].id
            /\ \A j \in 1..Len(old) :
                 /\ new[Len(evs) + j].guid = old[j].guid
                 /\ new[Len(evs) + j].title = old[j].title
                 /\ new[Len(evs) + j].link = old[j].link
                 /\ new[Len(evs) + j].description = old[j].description
                 /\ new[Len(evs) + j].pubDate = old[j].pubDate]_vars

\* Two events were prepended, in the order given, to a feed that held two
\* items added earlier.
C16_TwoPrependedToTwo ==
  /\ FeedJustUpdated
  /\ Len(events) = 2
  /\ Len(Val(feedFile).items) = 4
  /\ Val(feedFile).items[1].guid = events[1].id
  /\ Val(feedFile).items[2].guid = events[2].id
  /\ history[Val(feedFile).items[3].guid].first_seen < now
  /\ history[Val(feedFile).items[4].guid].first_seen < now

\* ------------------------------------------ runs over files left by others

\* What the state and history files may hold before the first run: nothing,
\* no JSON, or the files of an earlier installation that knew /a.
StateFiles == {None, Garbled, Some([seen_ids |-> {IdA}, last_checked |-> Some(0)])}
HistoryFiles ==
  {None, Garbled,
   Some(update_event_history(EmptyHistory, Val(extract_event_from_anchor(AnchorA1)), "new", 0))}

InitLoad ==
  /\ now = T0
  /\ stateFile \in StateFiles
  /\ historyFile \in HistoryFiles
  /\ statsFile = None
  /\ feedFile = None
  /\ pc = "idle"
  /\ state = EmptyState
  /\ seen = {}
  /\ history = EmptyHistory
  /\ events = <<>>
  /\ new_events = <<>>
  /\ idx = 0
  /\ html = <<>>
  /\ log = ""
  /\ notified = [s \in Sinks |-> [i \in Ids |-> 0]]
  /\ calls = <<>>
  /\ failed = {}
  /\ runStart = T0
  /\ lastRun = None
  /\ tracking = FALSE
  /\ tmpFiles = NoTmp
  /\ args = None
  /\ ret = None

\* Normal runs, one after the other at T0.
NextLoad ==
  \/ \E page \in Pages, fetch_ok \in BOOLEAN : MainBegin(page, fetch_ok)
  \/ \E sink_ok \in BOOLEAN : MainWebhook(sink_ok)
  \/ \E sink_ok \in BOOLEAN : MainEmail(sink_ok)
  \/ \E sink_ok \in BOOLEAN : MainTeams(sink_ok)
  \/ MainMarkSeen
  \/ MainAppendFeed
  \/ MainSaveState
  \/ MainSaveHistory

SpecLoad == InitLoad /\ [][NextLoad]_vars

\* The file is absent or cannot be parsed.
Unreadable(file) == file = None \/ ~IsJson(file)

\* C17: load_state and load_history return the empty default record when
\* the file is absent or cannot be read or parsed, and the run continues as
\* from empty state instead of failing: with the state file unreadable every
\* event of the page is new (and a page without events gets the state file
\* written afresh), with the history file unreadable the history written is
\* that of the page's events alone, first seen now.
C17_UnreadableFilesLoadAsEmpty ==
  [][\A page \in Pages :
       MainBegin(page, TRUE) =>
         /\ Unreadable(stateFile) =>
              /\ (PageEvents[page] # <<>>) =>
                   (/\ pc' = "webhook"
                    /\ state' = [seen_ids |-> {}, last_checked |-> None]
                    /\ seen' = {}
                    /\ new_events' = PageEvents[page])
              /\ (PageEvents[page] = <<>>) =>
                   (/\ pc' = "idle"
                    /\ stateFile' = Some([seen_ids |-> {}, last_checked |-> Some(now)]))
         /\ Unreadable(historyFile) =>
              /\ IsJson(historyFile')
              /\ DOMAIN Val(historyFile') =
                   {PageEvents[page][k].id : k \in 1..Len(PageEvents[page])}
              /\ \A i \in DOMAIN Val(historyFile') :
                   Val(historyFile')[i].first_seen = now]_vars

\* A run that found an unparsable state file is about to save the state: it
\* took both events of the page as new, made all six sink calls, and has
\* written the history and the feed.
C17_RunOverGarbledState ==
  /\ pc = "savestate"
  /\ stateFile = Garbled
  /\ IsJson(historyFile)
  /\ feedFile # None
  /\ Len(new_events) = 2
  /\ seen = {IdA, IdB}
  /\ Len(calls) = 6

\* --------------------------------------------------- the steps of a save

\* A file just created or truncated by open(tmp, "w"): two empty chunks, no
\* JSON document.
Truncated == <<"", "">>

\* What save_state and save_history are given to write.
NewStates == {[seen_ids |-> {}, last_checked |-> Some(T0)],
              [seen_ids |-> {IdA, IdB}, last_checked |-> Some(T0)]}
NewHistories ==
  {EmptyHistory,
   update_event_history(EmptyHistory, Val(extract_event_from_anchor(AnchorB)), "new", T0)}

\* The temporary paths may hold what an interrupted save left there.
TmpLeftovers == {None, Garbled}

\* A process is about to save history and then state, as main does.
InitSave ==
  /\ now = T0
  /\ stateFile \in StateFiles
  /\ historyFile \in HistoryFiles
  /\ statsFile = None
  /\ feedFile = None
  /\ pc = "save_history"
  /\ state \in NewStates
  /\ seen = {}
  /\ history \in NewHistories
  /\ events = <<>>
  /\ new_events = <<>>
  /\ idx = 0
  /\ html = <<>>
  /\ log = ""
  /\ notified = [s \in Sinks |-> [i \in Ids |-> 0]]
  /\ calls = <<>>
  /\ failed = {}
  /\ runStart = T0
  /\ lastRun = None
  /\ tracking = FALSE
  /\ tmpFiles \in [state : TmpLeftovers, history : TmpLeftovers]
  /\ args = None
  /\ ret = None

\* A step of a save: only the files named change, and the position.
SaveStep(from, to) ==
  /\ pc = from
  /\ pc' = to
  /\ UNCHANGED <<now, statsFile, feedFile, locals, log, ghosts, call>>

\* save_history, line 476: open(tmp, "w") creates or truncates the temporary file.
SaveHistoryOpen ==
  /\ SaveStep("save_history", "history_opened")
  /\ tmpFiles' = [tmpFiles EXCEPT !.history = Truncated]
  /\ UNCHANGED <<stateFile, historyFile>>

\* save_history, line 477: json.dump has written a part of the document.
SaveHistoryWrite ==
  /\ SaveStep("history_opened", "history_writing")
  /\ tmpFiles' = [tmpFiles EXCEPT !.history = Garbled]
  /\ UNCHANGED <<stateFile, historyFile>>

\* save_history, lines 476-477: the with block ends, the document is complete.
SaveHistoryClose ==
  /\ SaveStep("history_writing", "history_written")
  /\ tmpFiles' = [tmpFiles EXCEPT !.history = Some(history)]
  /\ UNCHANGED <<stateFile, historyFile>>

\* save_history, line 478: os.replace(tmp, path).
SaveHistoryReplace ==
  /\ SaveStep("history_written", "save_state")
  /\ historyFile' = tmpFiles.history
  /\ tmpFiles' = [tmpFiles EXCEPT !.history = None]
  /\ UNCHANGED stateFile

\* The same open on the state file itself, without a temporary file.
SaveStateOpen_inplace ==
  /\ SaveStep("save_state", "state_opened")
  /\ stateFile' = Truncated
  /\ UNCHANGED <<tmpFiles, historyFile>>

\* save_state, line 94: open(tmp, "w") creates or truncates the temporary file.
SaveStateOpen ==
  /\ SaveStep("save_state", "state_opened")
  /\ tmpFiles' = [tmpFiles EXCEPT !.state = Truncated]
  /\ UNCHANGED <<stateFile, historyFile>>

\* save_state, line 95: json.dump has written a part of the document.
SaveStateWrite ==
  /\ SaveStep("state_opened", "state_writing")
  /\ tmpFiles' = [tmpFiles EXCEPT !.state = Garbled]
  /\ UNCHANGED <<stateFile, historyFile>>

\* save_state, lines 94-95: the with block ends, the document is complete.
SaveStateClose ==
  /\ SaveStep("state_writing", "state_written")
  /\ tmpFiles' = [tmpFiles EXCEPT !.state = Some(state)]
  /\ UNCHANGED <<stateFile, historyFile>>

\* save_state, line 96: os.replace(tmp, path).
SaveStateReplace ==
  /\ SaveStep("state_written", "saved")
  /\ stateFile' = tmpFiles.state
  /\ tmpFiles' = [tmpFiles EXCEPT !.state = None]
  /\ UNCHANGED historyFile

\* The process is killed between two steps: every file stays as it is.
SaveInterrupted ==
  /\ pc \in {"save_history", "history_opened", "history_writing", "history_written",
             "save_state", "state_opened", "state_writing", "state_written"}
  /\ pc' = "interrupted"
  /\ UNCHANGED <<now, files, tmpFiles, locals, log, ghosts, call>>

NextSave ==
  \/ SaveHistoryOpen
  \/ SaveHistoryWrite
  \/ SaveHistoryClose
  \/ SaveHistoryReplace
  \/ SaveStateOpen
  \/ SaveStateWrite
  \/ SaveStateClose
  \/ SaveStateReplace
  \/ SaveInterrupted

SpecSave == InitSave /\ [][NextSave]_vars

\* C18: save_state and save_history write the new content to a temporary
\* path and then rename it over the target: no step of a save, and no
\* interruption, leaves the target with anything but its complete old content
\* or the complete new content, and a save that ends has put the new content
\* there.
C18_TargetOldOrNew ==
  [][/\ stateFile' = stateFile \/ stateFile' = Some(state)
     /\ historyFile' = historyFile \/ historyFile' = Some(history)
     /\ (pc' = "save_state") => (historyFile' = Some(history))
     /\ (pc' = "saved") => (stateFile' = Some(state))]_vars

\* Interrupted between the two steps of save_state: the temporary file is
\* complete and not renamed yet, the state file still holds the old state,
\* the history file the new history.
C18_InterruptedBeforeRename ==
  /\ pc = "interrupted"
  /\ tmpFiles.state = Some(state)
  /\ IsJson(stateFile)
  /\ stateFile # Some(state)
  /\ historyFile = Some(history)

\* ------------------------------------- a rebuild over a history gone stale

\* The events the feed to rebuild from was made of: publish dates that do
\* and do not parse, and /a as two anchors of one page give it.
StaleFeedEvents ==
  FeedEvents \cup {Val(extract_event_from_anchor(a)) : a \in {AnchorA1, AnchorA2}}

\* The feeds a run at T0 wrote for at most MaxAnchors new events.
StaleFeeds == {append_to_feed(None, b, T0) : b \in SeqsUpTo(StaleFeedEvents, MaxAnchors)}

\* Histories that know /b, which no such feed holds: on its own, and next
\* to /tba as first seen at 0.
StaleHistories ==
  LET hB == update_event_history(EmptyHistory, Val(extract_event_from_anchor(AnchorB)), "new", 0)
      tba == CHOOSE e \in FeedEvents : e.date = Some(<<"TBA">>)
  IN {hB, update_event_history(hB, tba, "new", 0)}

InitStale ==
  /\ now \in Clock
  /\ stateFile = None
  /\ historyFile \in {Some(h) : h \in StaleHistories}
  /\ statsFile = None
  /\ feedFile \in {None} \cup {Some(f) : f \in StaleFeeds}
  /\ pc = "idle"
  /\ state = EmptyState
  /\ seen = {}
  /\ history = EmptyHistory
  /\ events = <<>>
  /\ new_events = <<>>
  /\ idx = 0
  /\ html = <<>>
  /\ log = ""
  /\ notified = [s \in Sinks |-> [i \in Ids |-> 0]]
  /\ calls = <<>>
  /\ failed = {}
  /\ runStart = now
  /\ lastRun = None
  /\ tracking = FALSE
  /\ tmpFiles = NoTmp
  /\ args = None
  /\ ret = None

NextStale == Rebuild

SpecStale == InitStale /\ [][NextStale]_vars

\* C19: after a rebuild-mode run on a parseable feed the history file holds
\* exactly one record per distinct guid among the feed's items and none for
\* any other id, whatever the history file held before; each record's
\* first_seen is the publish date of an item of that guid when it parses,
\* else the time of the rebuild.
C19_RebuiltFromFeedAlone ==
  [][(Rebuild /\ feedFile # None) =>
       LET items == Val(feedFile).items
           h == Val(historyFile')
       IN /\ IsJson(historyFile')
          /\ DOMAIN h = {items[k].guid : k \in 1..Len(items)}
          /\ \A i \in DOMAIN h :
               \E k \in 1..Len(items) :
                 /\ items[k].guid = i
                 /\ h[i].id = i
                 /\ h[i].first_seen =
                      IF RfcParse(items[k].pubDate) # None
                      THEN Val(RfcParse(items[k].pubDate))
                      ELSE now]_vars

\* Rebuilt six hours after the feed was written, from the items /tba (its
\* publish date "TBA") and /rfc (published "01 Jan 1970 12:00"): /tba is
\* first seen at the rebuild, /rfc at noon of January 1, and /b is gone.
C19_StaleRecordGone ==
  /\ log = "Updated statistics"
  /\ now = T0 + TickLen
  /\ feedFile # None
  /\ Len(Val(feedFile).items) = 2
  /\ IsJson(historyFile)
  /\ DOMAIN Val(historyFile) = {normalize_url(<<"/", "tba">>), normalize_url(<<"/", "rfc">>)}
  /\ Val(historyFile)[normalize_url(<<"/", "tba">>)].first_seen = T0 + TickLen
  /\ Val(historyFile)[normalize_url(<<"/", "rfc">>)].first_seen = 12 * 60 * 60

\* ------------------------------------------------- find_events on its own

\* find_events is given at most MaxMatched anchors matched by the selector.
MaxMatched == 2

\* Anchors matched by REG_LINK_SELECTOR: without href, with an empty href,
\* with nothing but an href (a path, a fragment), with elements that hold no
\* text, with a date or a paragraph alone, with a paragraph that is all
\* boilerplate, and the anchors of the page.
MatchedAnchors ==
  {NoAnchor,
   [NoAnchor EXCEPT !.sel_title = Some(<<"Course C">>), !.child_p = Some(<<"Join us">>)],
   [NoAnchor EXCEPT !.href = Some(<<>>), !.sel_title = Some(<<"Course C">>)],
   [NoAnchor EXCEPT !.href = Some(<<"/", "c">>)],
   [NoAnchor EXCEPT !.href = Some(<<"#", "register">>)],
   [NoAnchor EXCEPT !.href = Some(<<"/", "c">>), !.sel_title = Some(<<>>),
                    !.prev_heading = Some(<<>>), !.sel_date = Some(<<>>),
                    !.prev_p = Some(<<>>)],
   [NoAnchor EXCEPT !.href = Some(<<"/", "c">>), !.prev_date = Some(<<"TBA">>)],
   [NoAnchor EXCEPT !.href = Some(<<"/", "c">>), !.child_p = Some(<<BOILERPLATE>>)],
   [NoAnchor EXCEPT !.href = Some(<<"/", "c">>), !.child_p = Some(<<BOILERPLATE>>),
                    !.prev_time = Some(<<"02/01/1970">>)],
   [NoAnchor EXCEPT !.href = Some(<<"/", "c">>), !.prev_p = Some(<<"About C">>)],
   AnchorA1, AnchorA2, AnchorB}

InitExtract ==
  \E page \in SeqsUpTo(MatchedAnchors, MaxMatched) :
    ApiStart("find_events", T0, [html |-> page])

\* find_events(html)
FindEvents == Returns("find_events", find_events(args.html))

NextExtract == FindEvents

SpecExtract == InitExtract /\ [][NextExtract]_vars

\* The anchors that have a non-empty href, in document order.
WithHref(anchors) == SelectSeq(anchors, LAMBDA a : a.href # None /\ Val(a.href) # <<>>)

\* C20: find_events returns exactly one event per matched anchor that has a
\* non-empty href, in document order, and none for an anchor without href;
\* whatever of title, date and description is not found, the event is there,
\* with id equal to link, a non-empty title (the id when no heading is
\* found) and a non-empty description.
C20_OneEventPerAnchorWithHref ==
  (pc = "returned") =>
    LET kept == WithHref(args.html)
    IN /\ Len(ret) = Len(kept)
       /\ \A k \in 1..Len(ret) :
            /\ ret[k].id = normalize_url(Val(kept[k].href))
            /\ ret[k].id = ret[k].link
            /\ ret[k].title # <<>>
            /\ ret[k].description # <<>>
            /\ (\A f \in {kept[k].sel_title, kept[k].child_heading, kept[k].prev_heading} :
                  f = None \/ Val(f) = <<>>)
                 => ret[k].title = ret[k].id

\* Two anchors were matched, the first without href and the second with
\* nothing but its href: one event, titled and described by its id.
C20_BareAnchorKept ==
  /\ pc = "returned"
  /\ args.html = <<NoAnchor, [NoAnchor EXCEPT !.href = Some(<<"/", "c">>)]>>
  /\ Len(ret) = 1
  /\ ret[1].id = <<ORIGIN, "/", "c">>
  /\ ret[1].title = ret[1].id
  /\ ret[1].description = ret[1].id
  /\ ret[1].date = None

\* ------------------------------------------------ the report, every field

\* The kinds of record a history may hold, the k-th of its kind:
\*   open     a deadline that does not parse, first seen on day k
\*   closed   a deadline passed at noon of January 1, first seen at T0 and
\*            seen expired 6(k-1) hours later (the first when first seen)
\*   dated    a deadline on January 1 or 2, first seen in minute k
\*   february a deadline on February 1, first seen at T0
\*   undated  no deadline, first seen at T0
\*   unseen   a record without first_seen (read as 0), its deadline February 1
ReportKinds == {"open", "closed", "dated", "february", "undated", "unseen"}

DatedTexts == <<"01 Jan 1970 12:00", "02 Jan 1970 03:00", "02/01/1970">>

ReportRecord(k, kind) ==
  LET expired_at == IF kind = "closed" THEN Some(T0 + (k - 1) * TickLen) ELSE None
  IN [id |-> StatId(k), title |-> <<"Course", ToString(k)>>, link |-> StatId(k),
      deadline |-> CASE kind = "open" -> Some(<<"TBA">>)
                     [] kind = "closed" -> Some(<<"01 Jan 1970 12:00">>)
                     [] kind = "dated" -> Some(<<DatedTexts[(k % 3) + 1]>>)
                     [] kind = "undated" -> None
                     [] OTHER -> Some(<<"01 Feb 1970 00:00">>),
      first_seen |-> CASE kind = "open" -> k * DAY
                       [] kind = "dated" -> k * 60
                       [] kind = "unseen" -> 0
                       [] OTHER -> T0,
      last_seen |-> T0,
      expired_at |-> expired_at,
      registration_duration_days |->
        IF kind = "closed" THEN Some(RoundDays1((k - 1) * TickLen)) ELSE None]

\* Up to MaxReported records of one kind, or up to MaxRecords of any kinds.
ReportHistories ==
  UNION {
    {[i \in {StatId(k) : k \in 1..n} |->
        ReportRecord(CHOOSE k \in 1..n : StatId(k) = i, kind)] : kind \in ReportKinds} :
    n \in 0..MaxReported}
  \cup
  UNION {
    {[i \in {StatId(k) : k \in 1..n} |->
        ReportRecord(CHOOSE k \in 1..n : StatId(k) = i,
                     kinds[CHOOSE k \in 1..n : StatId(k) = i])] :
       kinds \in [1..n -> ReportKinds]} :
    n \in 0..MaxRecords}

\* When the report is generated: one hour into January 1, at T0, and 4, 8
\* and 75 days into the year.
ReportTimes == {60 * 60, T0, 4 * DAY, 8 * DAY, 75 * DAY}

\* The history was written before the report is generated.
InitReport ==
  /\ now \in ReportTimes
  /\ stateFile = None
  /\ historyFile = None
  /\ statsFile = None
  /\ feedFile = None
  /\ pc = "stats"
  /\ state = EmptyState
  /\ seen = {}
  /\ history \in ReportHistories
  /\ \A i \in DOMAIN history :
       /\ history[i].first_seen <= now
       /\ history[i].expired_at # None => Val(history[i].expired_at) <= now
  /\ events = <<>>
  /\ new_events = <<>>
  /\ idx = 0
  /\ html = <<>>
  /\ log = ""
  /\ notified = [s \in Sinks |-> [i \in Ids |-> 0]]
  /\ calls = <<>>
  /\ failed = {}
  /\ runStart = now
  /\ lastRun = None
  /\ tracking = FALSE
  /\ tmpFiles = NoTmp
  /\ args = None
  /\ ret = None

NextReport == Statistics

SpecReport == InitReport /\ [][NextReport]_vars

\* The non-null durations of a history, as generate_statistics collects
\* them, and the ids holding them in ascending order of duration.
Completed(h) ==
  {i \in DOMAIN h : h[i].registration_duration_days # None
                    /\ Val(h[i].registration_duration_days) # 0}
DurationsSorted(h) ==
  LET sorted == SortedBy(Completed(h), [i \in Completed(h) |-> Val(h[i].registration_duration_days)])
  IN [k \in 1..Len(sorted) |-> Val(h[sorted[k]].registration_duration_days)]

\* The ages in seconds of the active records with a first_seen, ascending.
AgesSorted(h, t) ==
  LET ids == {i \in ActiveIds(h, t) : h[i].first_seen # 0}
      sorted == SortedBy(ids, [i \in ids |-> t - h[i].first_seen])
  IN [k \in 1..Len(sorted) |-> t - h[sorted[k]].first_seen]

\* The lower of the two middle elements of an even-length list, the middle
\* element of an odd-length one.
LowerMiddle(s) == s[(Len(s) + 1) \div 2]

\* C21: the reported median of the registration durations is the lower of
\* the two middle elements of the sorted list when the list has even length,
\* and the middle element when it has odd length; so is the reported median
\* of the ages of the active events.  The code does not keep this: see
\* MedianIsUpperMiddle.
C21_MedianIsLowerMiddle ==
  pc = "reported" =>
    /\ (Val(statsFile).registration_duration_stats # None) =>
         Val(Val(statsFile).registration_duration_stats).median
           = LowerMiddle(DurationsSorted(history))
    /\ (Val(statsFile).active_event_ages # None) =>
         Val(Val(statsFile).active_event_ages).median
           = RoundDays1(LowerMiddle(AgesSorted(history, now)))

\* Two completed records, of 0.2 and 0.5 days: the median reported is 0.5.
MedianIsUpperMiddle ==
  /\ pc = "reported"
  /\ DurationsSorted(history) = <<2, 5>>
  /\ Val(Val(statsFile).registration_duration_stats).median = 5

\* The history without the records whose deadline does not parse.
Parsed(h) == [i \in DOMAIN h \ Unparsed(h) |-> h[i]]

\* C22: a record whose deadline does not parse never appears in
\* upcoming_deadlines, and its age is not part of active_event_ages: the
\* distribution is that of the records whose deadline parses.  The code does
\* not keep this: see UnparsedAgeInDistribution.
C22_UnparsedInNoTimedStatistic ==
  pc = "reported" =>
    /\ \A k \in 1..Len(Val(statsFile).upcoming_deadlines) :
         Val(statsFile).upcoming_deadlines[k].link
           \notin {history[i].link : i \in Unparsed(history)}
    /\ Val(statsFile).active_event_ages = active_event_ages(Parsed(history), now)

\* A history of one record, its deadline "TBA", first seen on day 1, reported
\* on day 4: no upcoming deadline, and an age distribution of this one age,
\* 3.0 days.
UnparsedAgeInDistribution ==
  /\ pc = "reported"
  /\ now = 4 * DAY
  /\ Cardinality(DOMAIN history) = 1
  /\ \A i \in DOMAIN history : history[i].deadline = Some(<<"TBA">>)
  /\ Val(statsFile).upcoming_deadlines = <<>>
  /\ Val(statsFile).active_event_ages = Some([min |-> 30, max |-> 30, median |-> 30])

\* C23: registration_duration_stats.total_completed is the number of records
\* whose registration_duration_days is non-null (none reported counting as
\* 0), a record first observed when already expired included.  The code does
\* not keep this: see ExpiredAtFirstSightNotCompleted.
C23_TotalCompletedCountsEveryDuration ==
  pc = "reported" =>
    LET with_duration == {i \in DOMAIN history : history[i].registration_duration_days # None}
        stat == Val(statsFile).registration_duration_stats
    IN (IF stat = None THEN 0 ELSE Val(stat).total_completed) = Cardinality(with_duration)

\* Two records seen expired, the first when first seen (its duration 0.0
\* days) and the second six hours after (0.2 days): one completed.
ExpiredAtFirstSightNotCompleted ==
  /\ pc = "reported"
  /\ Cardinality(DOMAIN history) = 2
  /\ \A i \in DOMAIN history : history[i].expired_at # None
  /\ {Val(history[i].registration_duration_days) : i \in DOMAIN history} = {0, 2}
  /\ Val(Val(statsFile).registration_duration_stats).total_completed = 1

\* Some record has a nonzero first_seen and the oldest is at least 7 days old.
EnoughTracking(h, t) ==
  /\ \E i \in DOMAIN h : h[i].first_seen # 0
  /\ \A f \in {h[i].first_seen : i \in {j \in DOMAIN h : h[j].first_seen # 0}} :
       (\A g \in {h[i].first_seen : i \in {j \in DOMAIN h : h[j].first_seen # 0}} : f <= g)
         => t - f >= 7 * 86400

\* C24: generate_statistics reports velocity rates exactly when some record
\* has a nonzero first_seen and now minus the oldest first_seen is at least
\* 7 days; in every other case (a shorter span, no record with a nonzero
\* first_seen, an empty history) event_velocity carries the tracking-day
\* count, insufficient_data = true and null rates.  The code does not keep
\* this: see EmptyHistoryWithoutVelocity.
C24_VelocityOrInsufficientData ==
  pc = "reported" =>
    LET velocity == Val(statsFile).event_velocity
    IN /\ velocity # None
       /\ IF EnoughTracking(history, now)
          THEN /\ Val(velocity).events_per_week # None
               /\ Val(velocity).events_per_month # None
               /\ ~Val(velocity).insufficient_data
          ELSE /\ Val(velocity).events_per_week = None
               /\ Val(velocity).events_per_month = None
               /\ Val(velocity).insufficient_data

\* The report over an empty history: event_velocity is the empty dict.
EmptyHistoryWithoutVelocity ==
  /\ pc = "reported"
  /\ DOMAIN history = {}
  /\ Val(statsFile).total_events_tracked = 0
  /\ Val(statsFile).event_velocity = None

\* L holds the first 10 of the candidates C of history h in ascending order
\* of key (a function on C): as many entries as there are candidates, up to
\* 10, each the entry of another candidate, in order, and no candidate left
\* out comes before the last entry.
IsFirstTen(L, h, C, key) ==
  LET of(k) == CHOOSE i \in C : h[i].link = L[k].link
  IN /\ Len(L) = (IF Cardinality(C) < 10 THEN Cardinality(C) ELSE 10)
     /\ \A k \in 1..Len(L) : \E i \in C : h[i].link = L[k].link
     /\ \A j \in 1..Len(L), k \in 1..Len(L) : j # k => L[j].link # L[k].link
     /\ \A k \in 1..(Len(L) - 1) : key[of(k)] <= key[of(k + 1)]
     /\ \A i \in C :
          (\A k \in 1..Len(L) : h[i].link # L[k].link) => key[i] >= key[of(Len(L))]

\* The active records whose deadline lies within the next 30 days.
UpcomingCandidates(h, t) ==
  {i \in DOMAIN h :
     /\ parse_deadline(h[i].deadline) # None
     /\ ~is_event_expired(h[i].deadline, 0, t)
     /\ Val(parse_deadline(h[i].deadline)) - t > 0
     /\ Val(parse_deadline(h[i].deadline)) - t <= 30 * 86400}

\* The records past their deadline that were seen expired within the last 7 days.
RecentlyExpiredCandidates(h, t) ==
  {i \in DOMAIN h :
     /\ parse_deadline(h[i].deadline) # None
     /\ is_event_expired(h[i].deadline, 0, t)
     /\ h[i].expired_at # None
     /\ Val(h[i].expired_at) >= t - 7 * 86400}

\* The active records first seen more than 60 days ago.
LongRunningCandidates(h, t) ==
  {i \in DOMAIN h :
     /\ h[i].deadline # None /\ Val(h[i].deadline) # <<>>
     /\ ~is_event_expired(h[i].deadline, 0, t)
     /\ h[i].first_seen # 0
     /\ t - h[i].first_seen > 60 * 86400}

\* C25: each top-N list of the report is the first 10 entries of its sorted
\* candidate list: upcoming_deadlines (active records with a parseable
\* deadline, 0 < days remaining <= 30) ascending by days remaining,
\* recently_expired (expired, seen so within the last 7 days) descending by
\* expired_at, long_running_events (active for more than 60 days) descending
\* by days active; no list has more than 10 entries or an entry outside its
\* criterion.
C25_ListsAreFirstTenSorted ==
  pc = "reported" =>
    LET up == UpcomingCandidates(history, now)
        re == RecentlyExpiredCandidates(history, now)
        lo == LongRunningCandidates(history, now)
        stats == Val(statsFile)
    IN /\ IsFirstTen(stats.upcoming_deadlines, history, up,
                     [i \in up |-> RoundDays1(Val(parse_deadline(history[i].deadline)) - now)])
       /\ \A k \in 1..Len(stats.upcoming_deadlines) :
            /\ stats.upcoming_deadlines[k].days_remaining >= 0
            /\ stats.upcoming_deadlines[k].days_remaining <= 300
       /\ IsFirstTen(stats.recently_expired, history, re,
                     [i \in re |-> 0 - Val(history[i].expired_at)])
       /\ \A k \in 1..Len(stats.recently_expired) :
            stats.recently_expired[k].expired_at >= now - 7 * 86400
       /\ IsFirstTen(stats.long_running_events, history, lo,
                     [i \in lo |-> 0 - RoundDays1(now - history[i].first_seen)])
       /\ \A k \in 1..Len(stats.long_running_events) :
            stats.long_running_events[k].days_active >= 600

\* Twelve records with a deadline that never parses, first seen on days 1 to
\* 12, reported on day 75: the list of long-running events holds the ten
\* oldest, 74.0 days first and 65.0 days last.
C25_TwelveLongRunning ==
  /\ pc = "reported"
  /\ now = 75 * DAY
  /\ Cardinality(LongRunningCandidates(history, now)) = 12
  /\ Len(Val(statsFile).long_running_events) = 10
  /\ Val(statsFile).long_running_events[1].days_active = 740
  /\ Val(statsFile).long_running_events[10].days_active = 650

\* ------------------------------------------------- what a run leaves behind

\* The history file holds a record for each of the events, last seen between
\* the times from and to.
Recorded(evs, file, from, to) ==
  /\ IsJson(file)
  /\ \A k \in 1..Len(evs) :
       /\ evs[k].id \in DOMAIN Val(file)
       /\ Val(file)[evs[k].id].last_seen >= from
       /\ Val(file)[evs[k].id].last_seen <= to

\* C26: when a normal run that fetched the page completes, each event found
\* on the page, new or seen before, has a record in the history file whose
\* last_seen is the time of that run (between its start and its end), also
\* when the run found no new event.
C26_PageEventsLastSeenThisRun ==
  [][/\ \A page \in Pages :
          (MainBegin(page, TRUE) /\ pc' = "idle")
            => Recorded(PageEvents[page], historyFile', now, now)
     /\ MainSaveHistory => Recorded(events, historyFile', runStart, now)]_vars

\* A run six hours after the first found nothing new: the record of /a,
\* first seen at T0, is last seen at the time of this run.
C26_SeenAgainSixHoursLater ==
  /\ pc = "idle"
  /\ log = "No new events"
  /\ now = T0 + TickLen
  /\ runStart = now
  /\ IsJson(historyFile)
  /\ IdA \in DOMAIN Val(historyFile)
  /\ Val(historyFile)[IdA].first_seen = T0
  /\ Val(historyFile)[IdA].last_seen = T0 + TickLen

\* The sink invocations made when the loop stands at pc for the event at
\* position i: three for each event before it, and those of its own made.
CallsMadeAt(at, i) ==
  3 * (i - 1) + (CASE at = "webhook" -> 0 [] at = "email" -> 1 [] at = "teams" -> 2
                   [] OTHER -> 3)

\* C27: for each new event the sinks are invoked in the order generic
\* webhook, email, Teams webhook, each once, all three for one event before
\* any sink for the next; the event's id enters the seen set only after its
\* three sinks were attempted; and the state file is written only after all
\* new events were processed and the feed was updated.
C27_SinksInOrderThenSeenThenState ==
  /\ []((pc \in {"webhook", "email", "teams", "mark"}) =>
          /\ Len(calls) = CallsMadeAt(pc, idx)
          /\ calls = SubSeq(ExpectedCalls(new_events), 1, Len(calls))
          /\ seen = state.seen_ids \cup {new_events[k].id : k \in 1..(idx - 1)})
  /\ [][/\ (pc # "idle" /\ pc' # "idle" /\ seen' # seen) =>
             (/\ pc = "mark"
              /\ seen' = seen \cup {new_events[idx].id}
              /\ SubSeq(calls, Len(calls) - 2, Len(calls))
                   = ExpectedCalls(<<new_events[idx]>>))
        /\ (pc # "idle" /\ stateFile' # stateFile) =>
             (/\ pc = "savestate"
              /\ calls = ExpectedCalls(new_events)
              /\ seen = state.seen_ids \cup {new_events[k].id : k \in 1..Len(new_events)}
              /\ SubSeq(FeedGuids(feedFile), 1, Len(new_events))
                   = [k \in 1..Len(new_events) |-> Reverse(new_events)[k].id])]_vars

\* The first run, over /a and /b, has made the three calls for /a and marked
\* it seen, and stands before the webhook call for /b: nothing is written to
\* the state file or the feed yet.
C27_BetweenTwoNewEvents ==
  /\ pc = "webhook"
  /\ idx = 2
  /\ Len(new_events) = 2
  /\ new_events[1].id = IdA /\ new_events[2].id = IdB
  /\ calls = <<<<"webhook", IdA>>, <<"email", IdA>>, <<"teams", IdA>>>>
  /\ seen = {IdA}
  /\ stateFile = None
  /\ feedFile = None

\* ------------------------------------------------------- runs that are cut

\* A run is cut only while no sink was invoked more than MaxRepeats times
\* for any id.
MaxRepeats == 1

\* The process stops in the middle of a run (killed, or the machine goes
\* down): its locals are gone, every file stays as it is.
MainInterrupted ==
  /\ pc # "idle"
  /\ \A s \in Sinks, i \in Ids : notified[s][i] <= MaxRepeats
  /\ pc' = "idle"
  /\ LocalsCleared
  /\ log' = "Killed"
  /\ calls' = <<>>
  /\ failed' = {}
  /\ lastRun' = None
  /\ UNCHANGED <<now, files, tmpFiles, notified, runStart, tracking, call>>

\* Normal runs at T0, any of which may be cut.
NextInterrupt ==
  \/ NextLoad
  \/ MainInterrupted

SpecInterrupt == Init /\ [][NextInterrupt]_vars

\* How often the current run has invoked the sink for the id.
CalledThisRun(sink, i) == Cardinality({k \in 1..Len(calls) : calls[k] = <<sink, i>>})

\* C28: once a sink was invoked for an event in a run, also one that was
\* interrupted at any point after, no later run invokes a sink for that
\* event id again: a sink is invoked for an id only when every invocation
\* made for it so far was made by the run under way.  The code does not keep
\* this: see NotifiedAgainAfterInterrupt.
C28_NoSinkAgainAfterInterrupt ==
  [][\A s \in Sinks, i \in Ids :
       notified'[s][i] > notified[s][i] =>
         \A s2 \in Sinks : notified[s2][i] = CalledThisRun(s2, i)]_vars

\* A run was cut after its webhook call for /b; the next run, over a page
\* holding /b once, has made the webhook call for /b again.
NotifiedAgainAfterInterrupt ==
  /\ pc = "email"
  /\ Len(new_events) = 1
  /\ calls = <<<<"webhook", IdB>>>>
  /\ notified["webhook"][IdB] = 2
  /\ notified["email"][IdB] = 0
  /\ stateFile = None

\* C29: after any sequence of completed normal runs from empty state and
\* empty history (fetches succeeding or failing, any pages), the ids with a
\* record in the history file are the ids of the persisted seen_ids.
C29_HistoryIdsAreSeenIds ==
  pc = "idle" => DOMAIN load_history(historyFile) = SeenIds(stateFile)

\* Runs have found /a and /b, a sink failed for /b, and the last run failed
\* to fetch the page: both ids are in seen_ids and in the history, and the
\* feed holds an item for each.
C29_BothIdsInBothFiles ==
  /\ pc = "idle"
  /\ log = "Error fetching page"
  /\ notified["email"][IdB] = 1
  /\ SeenIds(stateFile) = {IdA, IdB}
  /\ IsJson(historyFile)
  /\ DOMAIN Val(historyFile) = {IdA, IdB}
  /\ Range(FeedGuids(feedFile)) = {IdA, IdB}

\* The records of the history whose expired_at is set.
MarkedExpired(h) == {i \in DOMAIN h : h[i].expired_at # None}

\* C30: in every state that normal runs reach, over pages whose content (an
\* event's date text too) may change from run to run, every record of the
\* history file whose expired_at is set is counted in total_expired by
\* generate_statistics and not in currently_active.  The code does not keep
\* this: see MarkedExpiredCountedActive.
C30_MarkedExpiredCountedExpired ==
  (pc = "idle" /\ IsJson(historyFile)) =>
    LET h == load_history(historyFile)
        stats == generate_statistics(h, load_state(stateFile), now)
    IN /\ MarkedExpired(h) \subseteq ExpiredIds(h, now)
       /\ MarkedExpired(h) \cap ActiveIds(h, now) = {}
       /\ stats.total_expired >= Cardinality(MarkedExpired(h))
       /\ stats.currently_active <= Cardinality(DOMAIN h \ MarkedExpired(h))

\* The page showed /a with a deadline still ahead when the record was made,
\* and with a deadline that had passed when the record was updated: the
\* record is marked expired at T0 with the first deadline text, and the
\* report written by the run counts one active event and none expired.
MarkedExpiredCountedActive ==
  /\ pc = "idle"
  /\ now = T0
  /\ IsJson(historyFile)
  /\ DOMAIN Val(historyFile) = {IdA}
  /\ Val(historyFile)[IdA].expired_at = Some(T0)
  /\ Val(historyFile)[IdA].deadline = Some(<<"02 Jan 1970 03:00">>)
  /\ IdA \in ActiveIds(Val(historyFile), now)
  /\ statsFile # None
  /\ Val(statsFile).generated_at = T0
  /\ Val(statsFile).currently_active = 1
  /\ Val(statsFile).total_expired = 0

====
